---- MODULE Spec2Model ----
(***************************************************************************)
(* Model of the JSON-RPC -> database insert pipeline of mcp-server-hub     *)
(* (servers/src/mcp-parser/src/mcp_server_db_insert).                      *)
(*                                                                         *)
(* Python values are tagged records [t |-> <type name>, v |-> <payload>]; *)
(* the tag is the value's Python type name (type(x).__name__).  A dict is  *)
(* the sequence of its <<key, value>> items in insertion order, a list is  *)
(* the sequence of its elements.  A raw JSON text is represented by the    *)
(* document json.loads returns for it, or by Malformed when json.loads     *)
(* raises JSONDecodeError.                                                 *)
(***************************************************************************)
EXTENDS Integers, Sequences, FiniteSets, TLC

VARIABLES
    pc,                 \* position of process_jsonrpc_to_db / of the decoder run
    args,               \* the request (InsertJsonRpcToDb), fields read so far
    responses,          \* list of JsonRpcResponse returned by validate_jsonrpc_batch
    all_records,        \* records extracted from the responses
    transformed_records,\* records after prepare_records_for_db + transform_records
    db_connection,      \* the DatabaseConnection object, or NoConnection
    handle,             \* the engine handle behind the adapter: none / open / closed /
                        \* close_failed (close() raised)
    store,              \* the target table / collection / key space of the engine
                        \* (rows_before: its rows when the request started)
    progress,           \* insert_records' loop state: next index, inserted_count
    result,             \* the result dict of process_jsonrpc_to_db
    outcome,            \* how the operation ended: none / returned / raised (+ error)
    calls,              \* backend operations issued so far, in order
    decoded,            \* decoder run: parse result and extracted records
    server              \* serve(): max_batch_size, the arguments of the tool call as
                        \* received, and the warnings logged by call_tool

vars == <<pc, args, responses, all_records, transformed_records, db_connection,
          handle, store, progress, result, outcome, calls, decoded, server>>

-----------------------------------------------------------------------------
(* Python values *)

None == [t |-> "NoneType", v |-> 0]
PyInt(n) == [t |-> "int", v |-> n]
PyStr(s) == [t |-> "str", v |-> s]
PyBool(b) == [t |-> "bool", v |-> b]
PyDict(items) == [t |-> "dict", v |-> items]
PyList(elems) == [t |-> "list", v |-> elems]
PyDatetime(n) == [t |-> "datetime", v |-> n]
(* a float: the model's floats are the values n + 0.5 *)
PyFloat(n) == [t |-> "float", v |-> n]
Malformed == [t |-> "malformed", v |-> 0]

IsNone(x) == x.t = "NoneType"

(* dict operations on item sequences *)
DictHas(d, k) == \E i \in 1..Len(d) : d[i][1] = k
DictGet(d, k) == IF DictHas(d, k) THEN d[CHOOSE i \in 1..Len(d) : d[i][1] = k][2] ELSE None
DictSet(d, k, x) ==
    IF DictHas(d, k)
    THEN [i \in 1..Len(d) |-> IF d[i][1] = k THEN <<k, x>> ELSE d[i]]
    ELSE Append(d, <<k, x>>)
DictKeys(d) == [i \in 1..Len(d) |-> d[i][1]]
KeySet(d) == {d[i][1] : i \in 1..Len(d)}

RECURSIVE DictUpdate(_, _)
DictUpdate(d, items) ==
    IF items = <<>> THEN d
    ELSE IF DictHas(d, items[1][1])
    THEN DictUpdate(DictSet(d, items[1][1], items[1][2]), Tail(items))
    ELSE DictUpdate(Append(d, items[1]), Tail(items))

(* the concatenation of a list of lists (list.extend in a loop) *)
RECURSIVE Concat(_)
Concat(lists) ==
    IF lists = <<>> THEN <<>>
    ELSE IF Len(lists) = 1 THEN lists[1]
    ELSE LET half == Len(lists) \div 2
         IN  Concat(SubSeq(lists, 1, half)) \o Concat(SubSeq(lists, half + 1, Len(lists)))

-----------------------------------------------------------------------------
(* jsonrpc_parser.py *)

JsonRpcResponse(jsonrpc, id, res, error, method, params) ==
    [jsonrpc |-> jsonrpc, id |-> id, result |-> res, error |-> error,
     method |-> method, params |-> params]

is_success(r) == IsNone(r.error)
is_error(r) == ~IsNone(r.error)
is_notification(r) == ~IsNone(r.method) /\ IsNone(r.id)

Failure(msg) == [ok |-> FALSE, value |-> None, message |-> msg]
Success(x) == [ok |-> TRUE, value |-> x, message |-> ""]

(* the validation of the response structure, lines 79-101: "" when accepted *)
StructureError(data) ==
    LET res == DictGet(data, "result")
        error == DictGet(data, "error")
    IN  IF DictHas(data, "id")
        THEN IF ~IsNone(res) /\ ~IsNone(error) THEN "cannot have both 'result' and 'error'"
             ELSE IF IsNone(res) /\ IsNone(error) THEN "must have either 'result' or 'error'"
             ELSE ""
        ELSE IF DictHas(data, "method")
        THEN IF DictHas(data, "result") \/ DictHas(data, "error")
             THEN "notification cannot have 'result' or 'error'"
             ELSE ""
        ELSE "must have either 'id' or 'method'"

parse_jsonrpc_response(doc) ==
    IF doc = Malformed THEN Failure("Invalid JSON format")
    ELSE IF doc.t # "dict" THEN Failure("JSON-RPC response must be an object")
    ELSE LET data == doc.v
             jsonrpc_version == DictGet(data, "jsonrpc")
         IN  IF jsonrpc_version # PyStr("2.0") THEN Failure("Unsupported JSON-RPC version")
             ELSE IF StructureError(data) # "" THEN Failure(StructureError(data))
             ELSE Success(JsonRpcResponse(jsonrpc_version, DictGet(data, "id"),
                                          DictGet(data, "result"), DictGet(data, "error"),
                                          DictGet(data, "method"), DictGet(data, "params")))


(* type(x).__name__ *)
TypeName(x) == x.t

ProvenanceItems(response) ==
    <<  <<"jsonrpc_id", response.id>>, <<"jsonrpc_version", response.jsonrpc>>  >>

(* one element of a list-valued result, lines 170-189 *)
ArrayItemRecord(response, item, i) ==
    IF item.t = "dict"
    THEN DictUpdate(item.v, ProvenanceItems(response)
                            \o << <<"result_index", PyInt(i)>>, <<"is_success", PyBool(TRUE)>> >>)
    ELSE ProvenanceItems(response)
         \o << <<"result_value", item>>, <<"result_index", PyInt(i)>>,
               <<"result_type", PyStr(TypeName(item))>>, <<"is_success", PyBool(TRUE)>> >>

(* truth value of a Python value (None, 0, "", [], {} and False are falsy) *)
Truthy(x) ==
    CASE x.t = "NoneType" -> FALSE
      [] x.t = "bool" -> x.v
      [] x.t = "int" -> x.v # 0
      [] x.t = "str" -> x.v # ""
      [] x.t \in {"dict", "list"} -> x.v # <<>>
      [] OTHER -> TRUE

(* response.error.get(k) if response.error else None *)
ErrorField(response, k) ==
    IF Truthy(response.error) THEN DictGet(response.error.v, k) ELSE None

(* a truthy error that is no dict has no .get: AttributeError *)
ErrorGetRaises(response) ==
    is_error(response) /\ Truthy(response.error) /\ response.error.t # "dict"

extract_data_from_jsonrpc(response) ==
    IF is_error(response)
    THEN << ProvenanceItems(response)
            \o << <<"error_code", ErrorField(response, "code")>>,
                  <<"error_message", ErrorField(response, "message")>>,
                  <<"error_data", ErrorField(response, "data")>>,
                  <<"is_error", PyBool(TRUE)>> >> >>
    ELSE IF is_notification(response)
    THEN << << <<"jsonrpc_version", response.jsonrpc>>, <<"method", response.method>>,
               <<"params", response.params>>, <<"is_notification", PyBool(TRUE)>> >> >>
    ELSE IF IsNone(response.result)
    THEN << ProvenanceItems(response)
            \o << <<"result", None>>, <<"is_success", PyBool(TRUE)>> >> >>
    ELSE IF response.result.t = "dict"
    THEN << DictUpdate(response.result.v,
                       ProvenanceItems(response) \o << <<"is_success", PyBool(TRUE)>> >>) >>
    ELSE IF response.result.t = "list"
    THEN [i \in 1..Len(response.result.v) |->
              ArrayItemRecord(response, response.result.v[i], i - 1)]
    ELSE << ProvenanceItems(response)
            \o << <<"result_value", response.result>>,
                  <<"result_type", PyStr(TypeName(response.result))>>,
                  <<"is_success", PyBool(TRUE)>> >> >>

(* index (1-based) of the first item of a batch that parse_jsonrpc_response rejects, 0 if none *)
FirstInvalid(items) ==
    IF \E i \in 1..Len(items) : ~parse_jsonrpc_response(items[i]).ok
    THEN CHOOSE i \in 1..Len(items) :
            /\ ~parse_jsonrpc_response(items[i]).ok
            /\ \A j \in 1..(i - 1) : parse_jsonrpc_response(items[j]).ok
    ELSE 0

validate_jsonrpc_batch(doc) ==
    IF doc = Malformed THEN Failure("Invalid JSON format")
    ELSE IF doc.t = "list"
    THEN IF Len(doc.v) = 0 THEN Failure("JSON-RPC batch cannot be empty")
         ELSE IF FirstInvalid(doc.v) # 0
         THEN [ok |-> FALSE, value |-> PyInt(FirstInvalid(doc.v) - 1),
               message |-> "Invalid item at index " \o ToString(FirstInvalid(doc.v) - 1)]
         ELSE Success([i \in 1..Len(doc.v) |-> parse_jsonrpc_response(doc.v[i]).value])
    ELSE IF parse_jsonrpc_response(doc).ok
         THEN Success(<<parse_jsonrpc_response(doc).value>>)
         ELSE parse_jsonrpc_response(doc)


-----------------------------------------------------------------------------
(* strings: characters are strings of length 1 *)

Char(s, i) == SubSeq(s, i, i)
LowerAlphabet == "abcdefghijklmnopqrstuvwxyz"
UpperAlphabet == "ABCDEFGHIJKLMNOPQRSTUVWXYZ"
Digits == "0123456789"
CharsOf(s) == {Char(s, i) : i \in 1..Len(s)}
UpperChars == CharsOf(UpperAlphabet)
DigitChars == CharsOf(Digits)
(* [a-zA-Z_] and [a-zA-Z0-9_] *)
NameStartChars == CharsOf(LowerAlphabet) \cup UpperChars \cup {"_"}
NameChars == NameStartChars \cup DigitChars
StartsWith(s, prefix) == Len(s) >= Len(prefix) /\ SubSeq(s, 1, Len(prefix)) = prefix

(* str.lower() on one ASCII character *)
LowerChar(c) ==
    IF c \in UpperChars
    THEN Char(LowerAlphabet, CHOOSE i \in 1..Len(UpperAlphabet) : Char(UpperAlphabet, i) = c)
    ELSE c

RECURSIVE Lower(_)
Lower(s) ==
    IF Len(s) <= 1 THEN LowerChar(s)
    ELSE LET half == Len(s) \div 2
         IN  Lower(SubSeq(s, 1, half)) \o Lower(SubSeq(s, half + 1, Len(s)))

(* re.sub(r'[^a-zA-Z0-9_]', '_', s) *)
RECURSIVE ReplaceInvalid(_)
ReplaceInvalid(s) ==
    IF s = "" THEN ""
    ELSE IF Len(s) = 1 THEN (IF s \in NameChars THEN s ELSE "_")
    ELSE LET half == Len(s) \div 2
         IN  ReplaceInvalid(SubSeq(s, 1, half)) \o ReplaceInvalid(SubSeq(s, half + 1, Len(s)))

(* PostgreSQL identifier limit *)
MaxNameLen == 63

(* sanitize_field_name with the length limit applied before the prefix is added *)
sanitize_field_name_limit_first(name) ==
    LET replaced == ReplaceInvalid(name)
        limited == IF Len(replaced) > MaxNameLen THEN SubSeq(replaced, 1, MaxNameLen)
                   ELSE replaced
        prefixed == IF limited # "" /\ Head(limited) \in NameStartChars
                    THEN limited ELSE "field_" \o limited
    IN  Lower(prefixed)

sanitize_field_name(name) ==
    LET replaced == ReplaceInvalid(name)
        prefixed == IF replaced # "" /\ Head(replaced) \in NameStartChars
                    THEN replaced ELSE "field_" \o replaced
        limited == IF Len(prefixed) > MaxNameLen THEN SubSeq(prefixed, 1, MaxNameLen)
                   ELSE prefixed
    IN  Lower(limited)

(* json.dumps with the default separators; ensure_ascii escapes are not modelled *)
RECURSIVE json_dumps(_)
RECURSIVE DumpsList(_)
RECURSIVE DumpsItems(_)
DumpsList(elems) ==
    IF elems = <<>> THEN ""
    ELSE json_dumps(elems[1]) \o (IF Len(elems) > 1 THEN ", " ELSE "") \o DumpsList(Tail(elems))
DumpsItems(items) ==
    IF items = <<>> THEN ""
    ELSE "\"" \o items[1][1] \o "\": " \o json_dumps(items[1][2])
         \o (IF Len(items) > 1 THEN ", " ELSE "") \o DumpsItems(Tail(items))
json_dumps(x) ==
    CASE x.t = "NoneType" -> "null"
      [] x.t = "bool" -> IF x.v THEN "true" ELSE "false"
      [] x.t = "int" -> ToString(x.v)
      [] x.t = "str" -> "\"" \o x.v \o "\""
      [] x.t = "list" -> "[" \o DumpsList(x.v) \o "]"
      [] x.t = "dict" -> "{" \o DumpsItems(x.v) \o "}"

(* dict(items): a later item with the same key replaces the value of the earlier one *)
DictOf(items) == DictUpdate(<<>>, items)

RECURSIVE flatten_nested_dict(_, _)
RECURSIVE FlattenItems(_, _)
(* FlattenItems with a list kept as the value of its field *)
FlattenItemsKeepingLists(data, parent_key) ==
    Concat([i \in 1..Len(data) |->
              LET k == data[i][1]
                  x == data[i][2]
                  new_key == sanitize_field_name(IF parent_key # "" THEN parent_key \o "_" \o k
                                                 ELSE k)
              IN  CASE x.t = "dict" -> flatten_nested_dict(x.v, new_key)
                    [] OTHER -> << <<new_key, x>> >>])

FlattenItems(data, parent_key) ==
    Concat([i \in 1..Len(data) |->
              LET k == data[i][1]
                  x == data[i][2]
                  new_key == sanitize_field_name(IF parent_key # "" THEN parent_key \o "_" \o k
                                                 ELSE k)
              IN  CASE x.t = "dict" -> flatten_nested_dict(x.v, new_key)
                    [] x.t = "list" -> << <<new_key, PyStr(json_dumps(x))>> >>
                    [] OTHER -> << <<new_key, x>> >>])
flatten_nested_dict(data, parent_key) == DictOf(FlattenItems(data, parent_key))

(* the else branch of prepare_records_for_db: sanitize the keys only *)
RECURSIVE SanitizeOnly(_, _)
SanitizeOnly(rec, acc) ==
    IF rec = <<>> THEN acc
    ELSE LET clean_key == sanitize_field_name(rec[1][1])
             value == IF rec[1][2].t \in {"dict", "list"}
                      THEN PyStr(json_dumps(rec[1][2])) ELSE rec[1][2]
         IN  IF DictHas(acc, clean_key)
             THEN SanitizeOnly(Tail(rec), DictSet(acc, clean_key, value))
             ELSE SanitizeOnly(Tail(rec), Append(acc, <<clean_key, value>>))

prepare_records_for_db(records, flatten) ==
    [i \in 1..Len(records) |->
        IF flatten THEN flatten_nested_dict(records[i], "") ELSE SanitizeOnly(records[i], <<>>)]


-----------------------------------------------------------------------------
(* data_transformer.py *)

DatabaseTypes == {"postgresql", "mongodb", "sqlite", "redis", "mysql"}

type_mappings(database_type) ==
    CASE database_type = "postgresql" ->
           [str |-> "TEXT", int |-> "INTEGER", float |-> "REAL", bool |-> "BOOLEAN",
            datetime |-> "TIMESTAMP", date |-> "DATE", time |-> "TIME", uuid |-> "UUID",
            json |-> "JSONB", list |-> "JSONB", dict |-> "JSONB", decimal |-> "NUMERIC",
            bytes |-> "BYTEA"]
      [] database_type = "mysql" ->
           [str |-> "TEXT", int |-> "INT", float |-> "DOUBLE", bool |-> "BOOLEAN",
            datetime |-> "DATETIME", date |-> "DATE", time |-> "TIME", uuid |-> "CHAR(36)",
            json |-> "JSON", list |-> "JSON", dict |-> "JSON", decimal |-> "DECIMAL(10,2)",
            bytes |-> "BLOB"]
      [] database_type = "sqlite" ->
           [str |-> "TEXT", int |-> "INTEGER", float |-> "REAL", bool |-> "INTEGER",
            datetime |-> "TEXT", date |-> "TEXT", time |-> "TEXT", uuid |-> "TEXT",
            json |-> "TEXT", list |-> "TEXT", dict |-> "TEXT", decimal |-> "REAL",
            bytes |-> "BLOB"]
      [] database_type = "mongodb" ->
           [str |-> "string", int |-> "int", float |-> "double", bool |-> "bool",
            datetime |-> "date", date |-> "date", time |-> "string", uuid |-> "string",
            json |-> "object", list |-> "array", dict |-> "object", decimal |-> "decimal",
            bytes |-> "binData"]
      [] database_type = "redis" ->
           [str |-> "string", int |-> "string", float |-> "string", bool |-> "string",
            datetime |-> "string", date |-> "string", time |-> "string", uuid |-> "string",
            json |-> "string", list |-> "string", dict |-> "hash", decimal |-> "string",
            bytes |-> "string"]

(* type_mappings.get(key, default) *)
MappingGet(database_type, key, default) ==
    IF key \in DOMAIN type_mappings(database_type)
    THEN type_mappings(database_type)[key] ELSE default

RECURSIVE RemoveAll(_, _)
RemoveAll(s, sub) ==
    LET found == {i \in 1..(Len(s) - Len(sub) + 1) : SubSeq(s, i, i + Len(sub) - 1) = sub}
    IN  IF found = {} THEN s
        ELSE LET first == CHOOSE i \in found : \A j \in found : i <= j
             IN  SubSeq(s, 1, first - 1) \o RemoveAll(SubSeq(s, first + Len(sub), Len(s)), sub)

RECURSIVE StripBraces(_)
StripBraces(s) ==
    IF s # "" /\ Head(s) \in {"{", "}"} THEN StripBraces(Tail(s))
    ELSE IF s # "" /\ Char(s, Len(s)) \in {"{", "}"} THEN StripBraces(SubSeq(s, 1, Len(s) - 1))
    ELSE s

HexChars == DigitChars \cup CharsOf("abcdefABCDEF")
(* the characters a string uuid.UUID accepts can consist of *)
UuidTextChars == HexChars \cup CharsOf("urn:uuid:{}-")

(* uuid.UUID(value) accepts: 32 hexadecimal digits once urn:, uuid:, braces and hyphens are removed *)
is_uuid_string(s) ==
    /\ \A i \in 1..Len(s) : Char(s, i) \in UuidTextChars
    /\ LET hex == RemoveAll(StripBraces(RemoveAll(RemoveAll(s, "urn:"), "uuid:")), "-")
       IN  Len(hex) = 32 /\ \A i \in 1..Len(hex) : Char(hex, i) \in HexChars

AllDigits(s) == s # "" /\ \A i \in 1..Len(s) : Char(s, i) \in DigitChars

(* datetime.fromisoformat: YYYY-MM-DD, optionally followed by a separator and HH:MM:SS
   (fractions and offsets after the seconds are accepted as they come) *)
is_datetime_string(s) ==
    /\ Len(s) >= 10
    /\ AllDigits(SubSeq(s, 1, 4)) /\ Char(s, 5) = "-"
    /\ AllDigits(SubSeq(s, 6, 7)) /\ Char(s, 8) = "-"
    /\ AllDigits(SubSeq(s, 9, 10))
    /\ \/ Len(s) = 10
       \/ /\ Len(s) >= 19
          /\ AllDigits(SubSeq(s, 12, 13)) /\ Char(s, 14) = ":"
          /\ AllDigits(SubSeq(s, 15, 16)) /\ Char(s, 17) = ":"
          /\ AllDigits(SubSeq(s, 18, 19))

infer_field_type(database_type, value) ==
    CASE value.t = "NoneType" -> MappingGet(database_type, "str", "TEXT")
      [] value.t = "str" ->
           IF is_uuid_string(value.v) THEN MappingGet(database_type, "uuid", "TEXT")
           ELSE IF is_datetime_string(value.v) THEN MappingGet(database_type, "datetime", "TEXT")
           ELSE MappingGet(database_type, "str", "TEXT")
      [] value.t \in {"dict", "list"} -> MappingGet(database_type, "json", "TEXT")
      [] value.t = "datetime" -> MappingGet(database_type, "datetime", "TEXT")
      [] OTHER -> MappingGet(database_type, value.t, "TEXT")

(* datetime.isoformat(); the model's instants are seconds 0..9 of one minute *)
isoformat(dt) == "2024-01-15T10:30:0" \o ToString(dt.v)

transform_for_sqlite(value) ==
    CASE value.t = "bool" -> PyInt(IF value.v THEN 1 ELSE 0)
      [] value.t = "datetime" -> PyStr(isoformat(value))
      [] value.t \in {"dict", "list"} -> PyStr(json_dumps(value))
      [] OTHER -> value

(* str(value) of a scalar *)
PyStrOf(value) ==
    CASE value.t = "int" -> ToString(value.v)
      [] value.t = "str" -> value.v
      [] OTHER -> json_dumps(value)

transform_for_redis(value, target_type) ==
    CASE value.t = "dict" ->
           IF target_type = "hash"
           THEN PyDict([i \in 1..Len(value.v) |->
                           <<value.v[i][1], PyStr(PyStrOf(value.v[i][2]))>>])
           ELSE PyStr(json_dumps(value))
      [] value.t = "list" -> PyStr(json_dumps(value))
      [] value.t = "datetime" -> PyStr(isoformat(value))
      [] value.t = "bool" -> PyStr(IF value.v THEN "true" ELSE "false")
      [] OTHER -> PyStr(PyStrOf(value))

transform_for_mongodb(value) == value

transform_for_sql(value) ==
    IF value.t \in {"dict", "list"} THEN PyStr(json_dumps(value)) ELSE value

(* transform_value(value) with target_type None *)
transform_value(database_type, value) ==
    IF IsNone(value) THEN None
    ELSE CASE database_type = "sqlite" -> transform_for_sqlite(value)
           [] database_type = "redis" ->
                transform_for_redis(value, infer_field_type(database_type, value))
           [] database_type = "mongodb" -> transform_for_mongodb(value)
           [] OTHER -> transform_for_sql(value)

(* str(uuid.uuid4()): the n-th identifier generated *)
generate_uuid(n) == "6f1e2d3c-4b5a-4978-8695-a4b3c2d1e0f" \o ToString(n)

RECURSIVE AddUuids(_, _, _)
AddUuids(rec, uuid_fields, n) ==
    IF uuid_fields = <<>> THEN rec
    ELSE AddUuids(IF ~DictHas(rec, uuid_fields[1]) \/ IsNone(DictGet(rec, uuid_fields[1]))
                  THEN DictSet(rec, uuid_fields[1], PyStr(generate_uuid(n)))
                  ELSE rec,
                  Tail(uuid_fields), n + 1)

add_uuid_fields(rec, uuid_fields, n) == AddUuids(rec, uuid_fields, n)

add_timestamps(rec, current_time) ==
    DictSet(IF ~DictHas(rec, "created_at") THEN DictSet(rec, "created_at", current_time)
            ELSE rec,
            "updated_at", current_time)

TransformRecord(database_type, rec, uuid_fields, with_timestamps, current_time, n) ==
    LET with_uuid == IF uuid_fields # <<>> THEN add_uuid_fields(rec, uuid_fields, n) ELSE rec
        stamped == IF with_timestamps THEN add_timestamps(with_uuid, current_time)
                   ELSE with_uuid
    IN  [i \in 1..Len(stamped) |->
            <<stamped[i][1], transform_value(database_type, stamped[i][2])>>]

(* uuid_fields is <<>> for None (and for the empty list, which is falsy as well) *)
transform_records(database_type, records, uuid_fields, with_timestamps, current_time) ==
    [i \in 1..Len(records) |->
        TransformRecord(database_type, records[i], uuid_fields, with_timestamps,
                        current_time, (i - 1) * Len(uuid_fields))]

(* a merge that keeps the type of the field's first value whatever follows *)
SchemaStepKeepingFirst(database_type, existing_type, field_type) == existing_type

(* the type infer_schema keeps for a field that is in the schema already *)
SchemaStep(database_type, existing_type, field_type) ==
    IF existing_type # field_type
    THEN IF existing_type = "INTEGER" /\ field_type = "REAL" THEN field_type
         ELSE IF existing_type = "REAL" /\ field_type = "INTEGER" THEN existing_type
         ELSE MappingGet(database_type, "str", "TEXT")
    ELSE existing_type

(* schema[field_name] once infer_schema's loops have visited pair i of all the
   (field_name, value) pairs, in visiting order: the inferred type at the field's first visit, merged by SchemaStep at every later one *)
RECURSIVE SchemaTypeAt(_, _, _)
SchemaTypeAt(database_type, items, i) ==
    LET earlier == {j \in 1..(i - 1) : items[j][1] = items[i][1]}
        field_type == infer_field_type(database_type, items[i][2])
    IN  IF earlier = {} THEN field_type
        ELSE SchemaStep(database_type,
                        SchemaTypeAt(database_type, items,
                                     CHOOSE j \in earlier : \A k \in earlier : k <= j),
                        field_type)

(* the schema dict: fields in the order of their first visit, types as of their last *)
infer_schema(database_type, records) ==
    LET items == Concat(records)
        first == {i \in 1..Len(items) : \A j \in 1..(i - 1) : items[j][1] # items[i][1]}
        last(i) == CHOOSE j \in i..Len(items) :
                      /\ items[j][1] = items[i][1]
                      /\ \A k \in (j + 1)..Len(items) : items[k][1] # items[i][1]
    IN  [n \in 1..Cardinality(first) |->
            LET i == CHOOSE f \in first : Cardinality({g \in first : g < f}) = n - 1
            IN  <<items[i][1], SchemaTypeAt(database_type, items, last(i))>>]

(* the column definitions of the CREATE TABLE IF NOT EXISTS statement (primary_key None) *)
get_create_table_sql(database_type, schema) ==
    IF DictHas(schema, "id") THEN schema
    ELSE CASE database_type = "postgresql" -> << <<"id", "SERIAL PRIMARY KEY">> >> \o schema
           [] database_type = "mysql" -> << <<"id", "INT AUTO_INCREMENT PRIMARY KEY">> >> \o schema
           [] database_type = "sqlite" ->
                << <<"id", "INTEGER PRIMARY KEY AUTOINCREMENT">> >> \o schema
           [] OTHER -> schema


-----------------------------------------------------------------------------
(* database_manager.py *)

SchemeChars == (NameChars \ {"_"}) \cup {"+", "-", "."}

(* urlparse(url).scheme.lower(): the text before the first ':' when it is a valid scheme *)
url_scheme(url) ==
    IF \E i \in 1..Len(url) : Char(url, i) = ":"
    THEN LET i == CHOOSE j \in 1..Len(url) :
                     Char(url, j) = ":" /\ \A k \in 1..(j - 1) : Char(url, k) # ":"
             head == SubSeq(url, 1, i - 1)
         IN  IF /\ head # ""
                /\ Head(head) \in NameStartChars \ {"_"}
                /\ \A k \in 1..Len(head) : Char(head, k) \in SchemeChars
             THEN Lower(head) ELSE ""
    ELSE ""

(* a selection by the whole scheme instead of by its prefix *)
determine_database_type_exact(scheme) ==
    IF scheme \in {"postgresql", "postgres"} THEN "postgresql"
    ELSE IF scheme \in {"mysql", "sqlite", "mongodb", "redis"} THEN scheme
    ELSE ""

(* the if/elif chain of create_connection and _determine_database_type; "" when no branch matches *)
determine_database_type(scheme) ==
    IF StartsWith(scheme, "postgresql") \/ StartsWith(scheme, "postgres") THEN "postgresql"
    ELSE IF StartsWith(scheme, "mysql") THEN "mysql"
    ELSE IF StartsWith(scheme, "sqlite") THEN "sqlite"
    ELSE IF StartsWith(scheme, "mongodb") THEN "mongodb"
    ELSE IF StartsWith(scheme, "redis") THEN "redis"
    ELSE ""

(* DatabaseConnection.__init__: no engine handle yet *)
NoConnection == [database_type |-> "", connection |-> FALSE, client |-> FALSE]
NewConnection(database_type) ==
    [database_type |-> database_type, connection |-> FALSE, client |-> FALSE]

create_connection(connection_string) ==
    LET db_type == determine_database_type(url_scheme(connection_string))
    IN  IF db_type = "" THEN Failure("Unsupported database scheme")
        ELSE Success(NewConnection(db_type))

(* what connect() leaves in the adapter: pg/sqlite/mysql assign _connection only when the
   engine call returns; MongoDB assigns _client and Redis _connection before the ping *)
ConnectOutcomes(database_type) ==
    IF database_type \in {"mongodb", "redis"} THEN {"ok", "failed", "ping_failed"}
    ELSE {"ok", "failed"}

AfterConnect(conn, how) ==
    CASE how = "ok" ->
           [conn EXCEPT !.connection = TRUE, !.client = (conn.database_type = "mongodb")]
      [] how = "ping_failed" ->
           [conn EXCEPT !.connection = (conn.database_type = "redis"),
                        !.client = (conn.database_type = "mongodb")]
      [] OTHER -> conn

(* disconnect() closes only when the guarded attribute is set *)
HoldsHandle(conn) ==
    IF conn.database_type = "mongodb" THEN conn.client ELSE conn.connection

AfterDisconnect(conn) == [conn EXCEPT !.connection = FALSE, !.client = FALSE]

(* a slice that runs one record into the next chunk: records[i:i + batch_size + 1] *)
SliceOverlapping(records, i, batch_size) ==
    SubSeq(records, i + 1, IF i + batch_size + 1 < Len(records) THEN i + batch_size + 1
                           ELSE Len(records))

(* records[i:i + batch_size], i 0-based *)
Slice(records, i, batch_size) ==
    SubSeq(records, i + 1, IF i + batch_size < Len(records) THEN i + batch_size
                           ELSE Len(records))

(* rows built from each record's own keys instead of the columns of batch[0] *)
BatchRowsOfOwnKeys(batch) == batch

(* [[record.get(col) for col in columns] for record in batch], columns of batch[0] *)
BatchRows(batch) ==
    LET columns == DictKeys(batch[1])
    IN  [r \in 1..Len(batch) |->
            [c \in 1..Len(columns) |-> <<columns[c], DictGet(batch[r], columns[c])>>]]

(* the engine call of one pass of insert_records' loop: the rows it sends *)
InsertCall(database_type, records, i, batch_size) ==
    CASE database_type \in {"postgresql", "sqlite", "mysql"} ->
           BatchRows(Slice(records, i, batch_size))
      [] database_type = "mongodb" -> Slice(records, i, batch_size)
      [] OTHER ->
           << [k \in 1..Len(records[i + 1]) |->
                  <<records[i + 1][k][1], transform_value("redis", records[i + 1][k][2])>>] >>

(* the loop variable after one pass: range(0, len, batch_size), enumerate(records) for Redis *)
NextIndex(database_type, i, batch_size) ==
    IF database_type = "redis" THEN i + 1 ELSE i + batch_size

(* the engine's table after a successful call: SQL and MongoDB append the rows;
   Redis HSET writes the fields into the hash at key table:i *)
StoreRows(database_type, rows, sent, i) ==
    IF database_type = "redis"
    THEN IF i + 1 <= Len(rows)
         THEN [rows EXCEPT ![i + 1] = DictUpdate(rows[i + 1], sent[1])]
         ELSE Append(rows, sent[1])
    ELSE rows \o sent


-----------------------------------------------------------------------------
(* inputs *)

V2 == <<"jsonrpc", PyStr("2.0")>>
AnnResult == PyDict(<< <<"name", PyStr("Ann")>>, <<"age", PyInt(30)>> >>)
NestedResult ==
    PyDict(<< <<"User-Name", PyStr("Bo")>>,
              <<"meta", PyDict(<< <<"source", PyStr("api")>>, <<"version", PyInt(2)>> >>)>>,
              <<"tags", PyList(<<PyStr("admin"), PyInt(7)>>)>>,
              <<"created", PyStr("2024-01-15T10:30:00Z")>>,
              <<"active", PyBool(TRUE)>> >>)
ErrorCode == PyInt(-32600)
ErrorObject == PyDict(<< <<"code", ErrorCode>>, <<"message", PyStr("Invalid Request")>> >>)
StatusParams == PyDict(<< <<"status", PyStr("online")>> >>)

SuccessDoc == PyDict(<<V2, <<"id", PyInt(1)>>, <<"result", AnnResult>> >>)
ErrorDoc == PyDict(<<V2, <<"id", PyInt(2)>>, <<"error", ErrorObject>> >>)
NotificationDoc == PyDict(<<V2, <<"method", PyStr("notify")>>, <<"params", StatusParams>> >>)
NullResultDoc == PyDict(<<V2, <<"id", PyInt(1)>>, <<"result", None>> >>)
EmptyListDoc == PyDict(<<V2, <<"id", PyInt(1)>>, <<"result", PyList(<<>>)>> >>)
ListDoc ==
    PyDict(<<V2, <<"id", PyInt(3)>>,
             <<"result", PyList(<<PyDict(<< <<"name", PyStr("Alice")>> >>),
                                  PyDict(<< <<"name", PyStr("Bob")>>, <<"age", PyInt(41)>> >>),
                                  PyInt(7)>>)>> >>)
ScalarDoc == PyDict(<<V2, <<"id", PyInt(1)>>, <<"result", PyInt(42)>> >>)
NestedDoc == PyDict(<<V2, <<"id", PyInt(4)>>, <<"result", NestedResult>> >>)
StringErrorDoc == PyDict(<<V2, <<"id", PyInt(5)>>, <<"error", PyStr("boom")>> >>)
WrongVersionDoc == PyDict(<< <<"jsonrpc", PyStr("1.0")>>, <<"id", PyInt(2)>>,
                             <<"result", PyStr("invalid")>> >>)
NoVersionDoc == PyDict(<< <<"id", PyInt(1)>>, <<"result", PyStr("test")>> >>)
BothDoc == PyDict(<<V2, <<"id", PyInt(1)>>, <<"result", PyStr("test")>>,
                    <<"error", ErrorObject>> >>)
NeitherDoc == PyDict(<<V2, <<"id", PyInt(1)>> >>)
NotificationWithResultDoc ==
    PyDict(<<V2, <<"method", PyStr("test")>>, <<"result", PyStr("invalid")>> >>)
NoIdNoMethodDoc == PyDict(<<V2, <<"result", PyInt(1)>> >>)

(* the batch of the scenario: one success object, one error, one notification *)
MixedBatch == PyList(<<SuccessDoc, ErrorDoc, NotificationDoc>>)

Payloads ==
    {SuccessDoc, ErrorDoc, NotificationDoc, ListDoc, ScalarDoc, NestedDoc, EmptyListDoc,
     MixedBatch,
     PyList(<<ErrorDoc, SuccessDoc, NotificationDoc>>),
     PyList(<<NotificationDoc, ErrorDoc, SuccessDoc>>),
     PyList(<<EmptyListDoc, EmptyListDoc>>),
     PyList(<<ListDoc, SuccessDoc>>), StringErrorDoc,
     Malformed, PyInt(5), PyList(<<>>), NullResultDoc, WrongVersionDoc, NoVersionDoc, BothDoc,
     NeitherDoc, NotificationWithResultDoc, NoIdNoMethodDoc,
     PyList(<<SuccessDoc, WrongVersionDoc>>),
     PyList(<<NeitherDoc, SuccessDoc, BothDoc>>),
     PyList(<<SuccessDoc, PyInt(5)>>),
     PyList(<<SuccessDoc, NullResultDoc>>)}

ConnectionStrings ==
    {"postgresql://u@h/db", "postgres://h/db", "mysql://h/db", "sqlite:///demo.db",
     "SQLite:///demo.db", "mongodb://h/db", "mongodb+srv://h/db", "redis://h/0",
     "rediss://h/0", "http://h/db", "mssql://h/db", "demo.db", "://h"}

(* the database_type field of the request; the pipeline only copies it into its result *)
RequestedTypes == {"sqlite", "mongodb"}

(* batch_size: Field(ge=1, le=10000); the model draws it from 1..MaxBatchSize *)
MaxBatchSize == 3
BatchSizes == 1..MaxBatchSize

UuidFieldChoices == {<<>>, <<"record_id">>}
Times == {0}

TableName == "jsonrpc_data"

(* the target table before the request: absent, or present with one row of an earlier insert *)
OldRow == << <<"jsonrpc_id", PyInt(0)>>, <<"name", PyStr("old")>> >>
InitialStores == {[present |-> FALSE, rows |-> <<>>, schema |-> <<>>, rows_before |-> <<>>],
                  [present |-> TRUE, rows |-> <<OldRow>>, schema |-> <<>>,
                   rows_before |-> <<OldRow>>]}

NoOutcome == [status |-> "none", code |-> "", message |-> ""]
Raise(code, message) == [status |-> "raised", code |-> code, message |-> message]
Return == [status |-> "returned", code |-> "", message |-> ""]

NoDecoded == [doc |-> None, parsed |-> Failure(""), records |-> <<>>]
NoArgs == [jsonrpc_response |-> None, database_type |-> ""]
NoResult == [processed_responses |-> 0, inserted_records |-> 0, table_name |-> "",
             database_type |-> "", errors |-> <<>>]
NoStore == [present |-> FALSE, rows |-> <<>>, schema |-> <<>>, rows_before |-> <<>>]
NoProgress == [i |-> 0, inserted_count |-> 0]
NoServer == [max_batch_size |-> 0, arguments |-> <<>>, warnings |-> <<>>]


-----------------------------------------------------------------------------
(* server.py: process_jsonrpc_to_db, one action per stretch between two awaits *)

Init ==
    /\ pc = "start"
    /\ \E doc \in Payloads, dt \in RequestedTypes :
          /\ args = [jsonrpc_response |-> doc, database_type |-> dt]
          /\ result = [processed_responses |-> 0, inserted_records |-> 0,
                       table_name |-> TableName, database_type |-> dt, errors |-> <<>>]
    /\ responses = <<>>
    /\ all_records = <<>>
    /\ transformed_records = <<>>
    /\ db_connection = NoConnection
    /\ handle = "none"
    /\ store \in InitialStores
    /\ progress = NoProgress
    /\ outcome = NoOutcome
    /\ calls = <<>>
    /\ decoded = NoDecoded
    /\ server = NoServer

(* a validation that drops the invalid items of a batch and goes on with the valid ones *)
ParseSkippingInvalid ==
    /\ pc = "start"
    /\ LET doc == args.jsonrpc_response
           items == IF doc # Malformed /\ doc.t = "list" THEN doc.v ELSE <<doc>>
           valid == SelectSeq(items, LAMBDA d : parse_jsonrpc_response(d).ok)
       IN  IF valid # <<>>
           THEN /\ responses' = [i \in 1..Len(valid) |-> parse_jsonrpc_response(valid[i]).value]
                /\ result' = [result EXCEPT !.processed_responses = Len(valid)]
                /\ pc' = "extract"
                /\ outcome' = outcome
           ELSE /\ outcome' = Raise("INVALID_PARAMS", validate_jsonrpc_batch(doc).message)
                /\ pc' = "done"
                /\ UNCHANGED <<responses, result>>
    /\ UNCHANGED <<args, all_records, transformed_records, db_connection, handle, store,
                   progress, calls, decoded, server>>

(* Step 1: validate_jsonrpc_batch; an McpError leaves through finally with no connection *)
Parse ==
    /\ pc = "start"
    /\ LET parsed == validate_jsonrpc_batch(args.jsonrpc_response)
       IN  IF parsed.ok
           THEN /\ responses' = parsed.value
                /\ result' = [result EXCEPT !.processed_responses = Len(parsed.value)]
                /\ pc' = "extract"
                /\ outcome' = outcome
           ELSE /\ outcome' = Raise("INVALID_PARAMS", parsed.message)
                /\ pc' = "done"
                /\ UNCHANGED <<responses, result>>
    /\ UNCHANGED <<args, all_records, transformed_records, db_connection, handle, store,
                   progress, calls, decoded, server>>

(* an extraction step without the early return on an empty record list *)
ExtractWithoutEarlyReturn ==
    /\ pc = "extract"
    /\ IF \E i \in 1..Len(responses) : ErrorGetRaises(responses[i])
       THEN /\ result' = [result EXCEPT !.errors = Append(@, "Unexpected error")]
            /\ outcome' = Raise("INTERNAL_ERROR", "Unexpected error")
            /\ pc' = "done"
            /\ UNCHANGED all_records
       ELSE /\ all_records' =
                  Concat([i \in 1..Len(responses) |-> extract_data_from_jsonrpc(responses[i])])
            /\ pc' = "create_connection"
            /\ UNCHANGED <<result, outcome>>
    /\ UNCHANGED <<args, responses, transformed_records, db_connection, handle, store,
                   progress, calls, decoded, server>>

(* Step 2: extraction; no records -> return result; AttributeError -> except Exception *)
Extract ==
    /\ pc = "extract"
    /\ IF \E i \in 1..Len(responses) : ErrorGetRaises(responses[i])
       THEN /\ result' = [result EXCEPT !.errors = Append(@, "Unexpected error")]
            /\ outcome' = Raise("INTERNAL_ERROR", "Unexpected error")
            /\ pc' = "done"
            /\ UNCHANGED all_records
       ELSE LET extracted ==
                    Concat([i \in 1..Len(responses) |-> extract_data_from_jsonrpc(responses[i])])
            IN  /\ all_records' = extracted
                /\ IF extracted = <<>>
                   THEN /\ result' = [result EXCEPT !.errors = Append(@, "No data records extracted")]
                        /\ outcome' = Return
                        /\ pc' = "done"
                   ELSE /\ pc' = "create_connection"
                        /\ UNCHANGED <<result, outcome>>
    /\ UNCHANGED <<args, responses, transformed_records, db_connection, handle, store,
                   progress, calls, decoded, server>>

(* DatabaseManager.create_connection(args.connection_string, ...) *)
CreateConnection ==
    /\ pc = "create_connection"
    /\ \E cs \in ConnectionStrings :
          /\ args' = args @@ ("connection_string" :> cs)
          /\ LET made == create_connection(cs)
             IN  IF made.ok
                 THEN /\ db_connection' = made.value
                      /\ pc' = "connect"
                      /\ outcome' = outcome
                 ELSE /\ outcome' = Raise("INTERNAL_ERROR", made.message)
                      /\ pc' = "done"
                      /\ UNCHANGED db_connection
    /\ UNCHANGED <<responses, all_records, transformed_records, handle, store, progress,
                   result, calls, decoded, server>>

(* await db_connection.connect() *)
Connect ==
    /\ pc = "connect"
    /\ \E how \in ConnectOutcomes(db_connection.database_type) :
          /\ db_connection' = AfterConnect(db_connection, how)
          /\ handle' = IF how = "failed" THEN "none" ELSE "open"
          /\ IF how = "ok"
             THEN pc' = "transform" /\ outcome' = outcome
             ELSE pc' = "cleanup" /\ outcome' = Raise("INTERNAL_ERROR", "Failed to connect")
    /\ calls' = Append(calls, "connect")
    /\ UNCHANGED <<args, responses, all_records, transformed_records, store, progress,
                   result, decoded, server>>

(* prepare_records_for_db and transformer.transform_records *)
Transform ==
    /\ pc = "transform"
    /\ \E flatten \in BOOLEAN, stamps \in BOOLEAN, uuid_fields \in UuidFieldChoices,
          now \in Times :
          /\ args' = args @@ [flatten_nested |-> flatten, add_timestamps |-> stamps,
                              uuid_fields |-> uuid_fields]
          /\ transformed_records' =
                transform_records(db_connection.database_type,
                                  prepare_records_for_db(all_records, flatten),
                                  uuid_fields, stamps, PyDatetime(now))
    /\ pc' = "table_exists"
    /\ UNCHANGED <<responses, all_records, db_connection, handle, store, progress, result,
                   outcome, calls, decoded, server>>

(* a schema step without the elif branch: an absent table falls through to the insert *)
TableExistsWithoutRefusal ==
    /\ pc = "table_exists"
    /\ \E query_failed \in BOOLEAN, create_if_missing \in BOOLEAN :
          LET table_exists == IF query_failed THEN FALSE ELSE store.present
          IN  /\ args' = args @@ ("create_if_missing" :> create_if_missing)
              /\ calls' = Append(calls, IF table_exists THEN "exists=True" ELSE "exists=False")
              /\ pc' = IF ~table_exists /\ create_if_missing THEN "create_table" ELSE "insert"
              /\ outcome' = outcome
    /\ UNCHANGED <<responses, all_records, transformed_records, db_connection, handle,
                   store, progress, result, decoded, server>>

(* Step 4: await db_connection.table_exists(table_name); an engine error reads as absent *)
TableExists ==
    /\ pc = "table_exists"
    /\ \E query_failed \in BOOLEAN, create_if_missing \in BOOLEAN :
          LET table_exists == IF query_failed THEN FALSE ELSE store.present
          IN  /\ args' = args @@ ("create_if_missing" :> create_if_missing)
              /\ calls' = Append(calls, IF table_exists THEN "exists=True" ELSE "exists=False")
              /\ IF ~table_exists /\ create_if_missing
                 THEN pc' = "create_table" /\ outcome' = outcome
                 ELSE IF ~table_exists
                 THEN /\ pc' = "cleanup"
                      /\ outcome' = Raise("INVALID_PARAMS", "does not exist and create_if_missing is False")
                 ELSE pc' = "insert" /\ outcome' = outcome

    /\ UNCHANGED <<responses, all_records, transformed_records, db_connection, handle,
                   store, progress, result, decoded, server>>

(* a schema step that infers the schema from the extracted records, before preparation and
   transformation *)
CreateTableFromExtractedRecords ==
    /\ pc = "create_table"
    /\ LET dbt == db_connection.database_type
           schema == infer_schema(dbt, all_records)
       IN  \E ok \in (IF dbt = "redis" THEN {TRUE} ELSE BOOLEAN) :
              IF ok
              THEN /\ store' = IF dbt = "redis" \/ store.present THEN store
                               ELSE [store EXCEPT !.present = TRUE,
                                        !.schema = get_create_table_sql(dbt, schema)]
                   /\ pc' = "insert"
                   /\ outcome' = outcome
              ELSE /\ pc' = "cleanup"
                   /\ outcome' = Raise("INTERNAL_ERROR", "Failed to create table")
                   /\ UNCHANGED store
    /\ calls' = Append(calls, "create")
    /\ UNCHANGED <<args, responses, all_records, transformed_records, db_connection, handle,
                   progress, result, decoded, server>>

(* infer_schema and await db_connection.create_table_or_collection(table_name, schema);
   Redis' method is a no-op that cannot fail *)
CreateTable ==
    /\ pc = "create_table"
    /\ LET dbt == db_connection.database_type
           schema == infer_schema(dbt, transformed_records)
       IN  \E ok \in (IF dbt = "redis" THEN {TRUE} ELSE BOOLEAN) :
              IF ok
              THEN /\ store' = IF dbt = "redis" \/ store.present THEN store
                               ELSE [store EXCEPT !.present = TRUE,
                                        !.schema = get_create_table_sql(dbt, schema)]
                   /\ pc' = "insert"
                   /\ outcome' = outcome
              ELSE /\ pc' = "cleanup"
                   /\ outcome' = Raise("INTERNAL_ERROR", "Failed to create table")
                   /\ UNCHANGED store
    /\ calls' = Append(calls, "create")
    /\ UNCHANGED <<args, responses, all_records, transformed_records, db_connection, handle,
                   progress, result, decoded, server>>

(* what a failed engine call leaves behind: MongoDB's ordered insert_many and MySQL's
   autocommitting executemany may keep the rows before the failing one; asyncpg's executemany,
   SQLite's uncommitted chunk and a single HSET keep nothing *)
FailedCallRows(database_type, sent) ==
    IF database_type \in {"mongodb", "mysql"} THEN {SubSeq(sent, 1, n) : n \in 0..(Len(sent) - 1)}
    ELSE {<<>>}

(* an insert loop that runs in one transaction: a failing chunk undoes the earlier ones *)
InsertStepRollingBack ==
    /\ pc = "insert"
    /\ \E batch_size \in BatchSizes, ok \in BOOLEAN :
          /\ "batch_size" \in DOMAIN args => batch_size = args.batch_size
          /\ args' = IF "batch_size" \in DOMAIN args THEN args
                     ELSE args @@ ("batch_size" :> batch_size)
          /\ LET dbt == db_connection.database_type
                 sent == InsertCall(dbt, transformed_records, progress.i, batch_size)
                 next == NextIndex(dbt, progress.i, batch_size)
                 count == progress.inserted_count + Len(sent)
             IN  IF ok
                 THEN /\ store' = [store EXCEPT !.present = TRUE,
                                      !.rows = StoreRows(dbt, @, sent, progress.i)]
                      /\ progress' = [i |-> next, inserted_count |-> count]
                      /\ IF next >= Len(transformed_records)
                         THEN /\ result' = [result EXCEPT !.inserted_records = count]
                              /\ outcome' = Return
                              /\ pc' = "cleanup"
                         ELSE UNCHANGED <<result, outcome, pc>>
                 ELSE /\ store' = [store EXCEPT !.rows = store.rows_before]
                      /\ outcome' = Raise("INTERNAL_ERROR", "Failed to insert batch")
                      /\ pc' = "cleanup"
                      /\ UNCHANGED <<progress, result>>
    /\ calls' = Append(calls, "insert")
    /\ UNCHANGED <<responses, all_records, transformed_records, db_connection, handle,
                   decoded, server>>

(* Step 5: one pass of insert_records' loop; after the last one the count is stored *)
InsertStep ==
    /\ pc = "insert"
    /\ \E batch_size \in BatchSizes, ok \in BOOLEAN :
          /\ "batch_size" \in DOMAIN args => batch_size = args.batch_size
          /\ args' = IF "batch_size" \in DOMAIN args THEN args
                     ELSE args @@ ("batch_size" :> batch_size)
          /\ LET dbt == db_connection.database_type
                 sent == InsertCall(dbt, transformed_records, progress.i, batch_size)
                 next == NextIndex(dbt, progress.i, batch_size)
                 count == progress.inserted_count + Len(sent)
             IN  IF ok
                 THEN /\ store' = [store EXCEPT !.present = TRUE,
                                      !.rows = StoreRows(dbt, @, sent, progress.i)]
                      /\ progress' = [i |-> next, inserted_count |-> count]
                      /\ IF next >= Len(transformed_records)
                         THEN /\ result' = [result EXCEPT !.inserted_records = count]
                              /\ outcome' = Return
                              /\ pc' = "cleanup"
                         ELSE UNCHANGED <<result, outcome, pc>>
                 ELSE /\ \E kept \in FailedCallRows(dbt, sent) :
                            store' = [store EXCEPT !.rows = @ \o kept,
                                                   !.present = @ \/ kept # <<>>]
                      /\ outcome' = Raise("INTERNAL_ERROR", "Failed to insert batch")
                      /\ pc' = "cleanup"
                      /\ UNCHANGED <<progress, result>>
    /\ calls' = Append(calls, "insert")
    /\ UNCHANGED <<responses, all_records, transformed_records, db_connection, handle,
                   decoded, server>>

(* a disconnect at the end of the try block instead of in finally: skipped when raising *)
CleanupOnSuccessOnly ==
    /\ pc = "cleanup"
    /\ IF outcome.status = "returned"
       THEN /\ calls' = Append(calls, "disconnect")
            /\ IF HoldsHandle(db_connection)
               THEN \E closed \in BOOLEAN :
                       IF closed
                       THEN db_connection' = AfterDisconnect(db_connection) /\ handle' = "closed"
                       ELSE db_connection' = db_connection /\ handle' = "close_failed"
               ELSE UNCHANGED <<db_connection, handle>>
       ELSE UNCHANGED <<calls, db_connection, handle>>
    /\ pc' = "done"
    /\ UNCHANGED <<args, responses, all_records, transformed_records, store, progress,
                   result, outcome, decoded, server>>

(* finally: if db_connection: await db_connection.disconnect(); a raising close is logged *)
Cleanup ==
    /\ pc = "cleanup"
    /\ calls' = Append(calls, "disconnect")
    /\ IF HoldsHandle(db_connection)
       THEN \E closed \in BOOLEAN :
               IF closed
               THEN db_connection' = AfterDisconnect(db_connection) /\ handle' = "closed"
               ELSE db_connection' = db_connection /\ handle' = "close_failed"
       ELSE UNCHANGED <<db_connection, handle>>
    /\ pc' = "done"
    /\ UNCHANGED <<args, responses, all_records, transformed_records, store, progress,
                   result, outcome, decoded, server>>

Next ==
    \/ Parse
    \/ Extract
    \/ CreateConnection
    \/ Connect
    \/ Transform
    \/ TableExists
    \/ CreateTable
    \/ InsertStep
    \/ Cleanup

Spec == Init /\ [][Next]_vars


-----------------------------------------------------------------------------
(* the decoder on its own: parse_jsonrpc_response on one document, then extraction *)

JsonrpcChoices == {<<>>, <<V2>>, << <<"jsonrpc", PyStr("1.0")>> >>}
IdChoices == {<<>>, << <<"id", None>> >>, << <<"id", PyInt(1)>> >>}
ResultChoices ==
    {<<>>, << <<"result", None>> >>, << <<"result", PyInt(42)>> >>,
     << <<"result", AnnResult>> >>, << <<"result", PyList(<<>>)>> >>,
     << <<"result", PyList(<<AnnResult, PyInt(7)>>)>> >>}
ErrorChoices ==
    {<<>>, << <<"error", None>> >>, << <<"error", ErrorObject>> >>,
     << <<"error", PyStr("boom")>> >>, << <<"error", PyDict(<<>>)>> >>}
MethodChoices == {<<>>, << <<"method", None>> >>, << <<"method", PyStr("notify")>> >>}
ParamsChoices == {<<>>, << <<"params", StatusParams>> >>}

DecoderDocs ==
    {PyDict(j \o i \o r \o e \o m \o q) :
        j \in JsonrpcChoices, i \in IdChoices, r \in ResultChoices, e \in ErrorChoices,
        m \in MethodChoices, q \in ParamsChoices}
    \cup {Malformed, PyInt(5), PyList(<<SuccessDoc>>)}

InitDecode ==
    /\ pc = "decode"
    /\ \E doc \in DecoderDocs : decoded = [doc |-> doc, parsed |-> Failure(""), records |-> <<>>]
    /\ args = NoArgs
    /\ responses = <<>>
    /\ all_records = <<>>
    /\ transformed_records = <<>>
    /\ db_connection = NoConnection
    /\ handle = "none"
    /\ store = NoStore
    /\ progress = NoProgress
    /\ result = NoResult
    /\ outcome = NoOutcome
    /\ calls = <<>>
    /\ server = NoServer

DecodeParse ==
    /\ pc = "decode"
    /\ decoded' = [decoded EXCEPT !.parsed = parse_jsonrpc_response(decoded.doc)]
    /\ pc' = "decoded"
    /\ UNCHANGED <<args, responses, all_records, transformed_records, db_connection, handle,
                   store, progress, result, outcome, calls, server>>

DecodeExtract ==
    /\ pc = "decoded"
    /\ decoded.parsed.ok
    /\ IF ErrorGetRaises(decoded.parsed.value)
       THEN pc' = "extract_raised" /\ UNCHANGED decoded
       ELSE /\ decoded' = [decoded EXCEPT !.records = extract_data_from_jsonrpc(decoded.parsed.value)]
            /\ pc' = "extracted"
    /\ UNCHANGED <<args, responses, all_records, transformed_records, db_connection, handle,
                   store, progress, result, outcome, calls, server>>

NextDecode ==
    \/ DecodeParse
    \/ DecodeExtract

SpecDecode == InitDecode /\ [][NextDecode]_vars


-----------------------------------------------------------------------------
(* properties of the insert pipeline (Spec) *)

CallsOf(op) == {i \in 1..Len(calls) : calls[i] = op}
Called(op) == CallsOf(op) # {}
Created == db_connection # NoConnection
Ended == pc = "done"

(* C1: in every run in which a connection object was created, disconnect has been invoked
   on it (once, as the last backend operation) when the operation returns or raises,
   whichever step failed, and no run ends with an engine handle that is still open *)
C1_DisconnectBeforeEnd ==
    (Ended /\ Created) =>
        /\ Cardinality(CallsOf("disconnect")) = 1
        /\ calls[Len(calls)] = "disconnect"
        /\ handle # "open"

(* C1 case: an insert failed on an open connection, and the run ended with it closed *)
C1_FailedInsertStillDisconnects ==
    /\ Ended /\ Created
    /\ outcome.status = "raised" /\ Called("insert")
    /\ handle = "closed"

InvalidPayload == ~validate_jsonrpc_batch(args.jsonrpc_response).ok

(* C2: a payload that fails decoding or validation ends the pipeline with an
   invalid-params error at its first step: no connection object is ever created and no
   connect, exists, create or insert is issued *)
C2_InvalidPayloadNoBackend ==
    InvalidPayload =>
        /\ pc \in {"start", "done"}
        /\ ~Created /\ handle = "none" /\ calls = <<>>
        /\ Ended => outcome.status = "raised" /\ outcome.code = "INVALID_PARAMS"

(* C2 case: a batch whose second item has the wrong version was refused *)
C2_InvalidBatchItemRefused ==
    /\ Ended
    /\ args.jsonrpc_response = PyList(<<SuccessDoc, WrongVersionDoc>>)
    /\ outcome = Raise("INVALID_PARAMS", "Invalid item at index 1")

(* how a backend shows a stored True / a stored error code *)
StoredTrue(row, field) ==
    DictGet(row, field) \in {PyBool(TRUE), PyInt(1), PyStr("True"), PyStr("true"), PyStr("1")}
StoredErrorCode(row) ==
    DictGet(row, "error_code") \in {ErrorCode, PyStr(ToString(ErrorCode.v))}
NewRows == SubSeq(store.rows, Len(store.rows_before) + 1, Len(store.rows))

(* C3: the batch of one success object, one error and one notification, inserted into an
   absent table with create_if_missing, reports 3 processed responses and 3 inserted records,
   and of the stored records exactly one has is_error true with the original error code and
   exactly one has is_notification true *)
C3_MixedBatchStored ==
    (/\ Ended /\ outcome.status = "returned"
     /\ args.jsonrpc_response = MixedBatch
     /\ store.rows_before = <<>> /\ Called("create")) =>
        /\ result.processed_responses = 3
        /\ result.inserted_records = 3
        /\ Cardinality({i \in 1..Len(NewRows) :
                           StoredTrue(NewRows[i], "is_error") /\ StoredErrorCode(NewRows[i])}) = 1
        /\ Cardinality({i \in 1..Len(NewRows) : StoredTrue(NewRows[i], "is_notification")}) = 1

(* C3 case: a SQL chunk of more than one record stored the error record without its
   is_error and error_code columns *)
C3_SqlChunkDropsErrorFields ==
    /\ Ended /\ outcome.status = "returned"
    /\ args.jsonrpc_response = MixedBatch
    /\ store.rows_before = <<>> /\ Called("create")
    /\ db_connection.database_type = "sqlite" /\ args.batch_size > 1
    /\ result.inserted_records = 3
    /\ \A i \in 1..Len(NewRows) : ~DictHas(NewRows[i], "is_error")

InsertFailed == outcome = Raise("INTERNAL_ERROR", "Failed to insert batch")

(* the chunk that record j (0-based) belongs to starts at this index *)
ChunkStart(j) == (j \div args.batch_size) * args.batch_size

(* record j (0-based) of the request as the engine keeps it *)
Persisted(j) ==
    LET rec == transformed_records[j + 1]
        dbt == db_connection.database_type
    IN  CASE dbt \in {"postgresql", "sqlite", "mysql"} ->
               LET columns == DictKeys(transformed_records[ChunkStart(j) + 1])
               IN  /\ Len(store.rows) >= Len(store.rows_before) + j + 1
                   /\ store.rows[Len(store.rows_before) + j + 1] =
                         [c \in 1..Len(columns) |-> <<columns[c], DictGet(rec, columns[c])>>]
          [] dbt = "mongodb" ->
               /\ Len(store.rows) >= Len(store.rows_before) + j + 1
               /\ store.rows[Len(store.rows_before) + j + 1] = rec
          [] OTHER ->
               /\ Len(store.rows) >= j + 1
               /\ \A k \in 1..Len(rec) :
                     DictGet(store.rows[j + 1], rec[k][1]) = transform_value("redis", rec[k][2])

(* engine calls needed for the records before index i *)
PassesBefore(i) ==
    IF db_connection.database_type = "redis" THEN i
    ELSE (i + args.batch_size - 1) \div args.batch_size

(* C7: when the insert fails on chunk k, every record of the chunks before it is still
   in the store, the failing call was the last insert issued, and the request ends with
   the error only: no result is returned and the inserted count stays unreported *)
C7_FailedChunkKeepsEarlierChunks ==
    (InsertFailed /\ pc \in {"cleanup", "done"}) =>
        /\ \A j \in 0..(progress.i - 1) : Persisted(j)
        /\ Cardinality(CallsOf("insert")) = PassesBefore(progress.i) + 1
        /\ Len(store.rows) < Len(store.rows_before) + Len(transformed_records)
        /\ outcome.status = "raised"
        /\ result.inserted_records = 0

(* C7 case: a SQLite insert failed on its second chunk after the first was committed *)
C7_SecondChunkFailed ==
    /\ Ended /\ InsertFailed
    /\ db_connection.database_type = "sqlite"
    /\ progress.i > 0 /\ progress.i < Len(transformed_records)
    /\ Len(store.rows) = Len(store.rows_before) + progress.i

NothingExtracted ==
    /\ pc \notin {"start", "extract"}
    /\ responses # <<>>
    /\ \A i \in 1..Len(responses) :
          ~ErrorGetRaises(responses[i]) /\ extract_data_from_jsonrpc(responses[i]) = <<>>

(* C8: when the envelopes of a request yield no record at all, the pipeline returns its
   result with 0 inserted records and a warning, and neither creates a connection object
   nor issues connect, exists, create or insert *)
C8_NoRecordsNoBackend ==
    NothingExtracted =>
        /\ Ended /\ outcome = Return
        /\ result.inserted_records = 0
        /\ result.errors = <<"No data records extracted">>
        /\ ~Created /\ handle = "none" /\ calls = <<>>

(* C8 case: a success whose result is an empty list was processed *)
C8_EmptyListProcessed ==
    /\ Ended
    /\ args.jsonrpc_response = EmptyListDoc
    /\ result.processed_responses = 1

AbsentAndNotCreatable ==
    /\ Called("exists=False")
    /\ "create_if_missing" \in DOMAIN args
    /\ ~args.create_if_missing

(* C9: when the table is reported absent and create_if_missing is false, the pipeline
   raises an invalid-params error, neither create nor insert is issued, and the connection
   is still disconnected before the operation ends *)
C9_AbsentTableRefused ==
    AbsentAndNotCreatable =>
        /\ pc \in {"cleanup", "done"}
        /\ outcome.status = "raised" /\ outcome.code = "INVALID_PARAMS"
        /\ ~Called("create") /\ ~Called("insert")
        /\ store.rows = store.rows_before
        /\ Ended => calls[Len(calls)] = "disconnect" /\ handle # "open"

(* C9 case: the refusal happened on an open connection, which was then closed *)
C9_RefusedAndReleased ==
    /\ Ended /\ AbsentAndNotCreatable
    /\ calls = <<"connect", "exists=False", "disconnect">>
    /\ handle = "closed"

ListedSchemes == {"postgres", "postgresql", "mysql", "sqlite", "mongodb", "redis"}
SchemePrefixes == {"postgres", "mysql", "sqlite", "mongodb", "redis"}
Accepted == pc \notin {"start", "extract", "create_connection"} /\ Created
Rejected ==
    /\ Ended /\ outcome = Raise("INTERNAL_ERROR", "Unsupported database scheme")
    /\ ~Created /\ handle = "none" /\ calls = <<>>

(* C10 as stated: a connection string is accepted exactly when its scheme is one of
   postgres, postgresql, mysql, sqlite, mongodb, redis; any other scheme is rejected
   before a connection object exists or a connect is attempted *)
C10_OnlyListedSchemes ==
    "connection_string" \in DOMAIN args =>
        IF url_scheme(args.connection_string) \in ListedSchemes THEN Accepted ELSE Rejected

(* C10 amended: the backend is selected by the scheme alone, by prefix: a scheme that
   begins with postgres, mysql, sqlite, mongodb or redis selects that backend (whatever
   database_type the request names), and a scheme with none of these prefixes is rejected
   before a connection object exists or a connect is attempted *)
C10_SchemePrefixSelects ==
    "connection_string" \in DOMAIN args =>
        LET scheme == url_scheme(args.connection_string)
            matching == {p \in SchemePrefixes :
                            Len(scheme) >= Len(p) /\ SubSeq(scheme, 1, Len(p)) = p}
        IN  IF matching # {}
            THEN /\ Accepted
                 /\ \A p \in matching :
                       db_connection.database_type = (IF p = "postgres" THEN "postgresql" ELSE p)
            ELSE Rejected

(* C10 case: rediss:// was given a Redis connection although the request names another
   database_type, and connect was attempted on it *)
C10_RedissAccepted ==
    /\ "connection_string" \in DOMAIN args
    /\ args.connection_string = "rediss://h/0"
    /\ args.database_type = "sqlite"
    /\ db_connection.database_type = "redis"
    /\ Called("connect")

-----------------------------------------------------------------------------
(* properties of the decoder (SpecDecode) *)

Decoded == pc \in {"decoded", "extracted", "extract_raised"}

(* C4: the envelope {"jsonrpc": "2.0", "id": 1, "result": null} is accepted as a success
   response whose result is null, and extraction gives exactly one record holding the id,
   the version, result null and is_success true *)
C4_NullResultAccepted ==
    (Decoded /\ decoded.doc = NullResultDoc) =>
        /\ decoded.parsed.ok
        /\ is_success(decoded.parsed.value)
        /\ IsNone(decoded.parsed.value.result)
        /\ pc = "extracted" =>
              decoded.records =
                 << << <<"jsonrpc_id", PyInt(1)>>, <<"jsonrpc_version", PyStr("2.0")>>,
                       <<"result", None>>, <<"is_success", PyBool(TRUE)>> >> >>

(* C4 case: the decoder refused the envelope with the explicit null result *)
C4_NullResultRejected ==
    /\ Decoded /\ decoded.doc = NullResultDoc
    /\ decoded.parsed = Failure("must have either 'result' or 'error'")

(* C5: every accepted envelope has exactly one of is_success, is_error, is_notification
   true; in particular a notification has is_success false and is_error false *)
C5_ExactlyOneClass ==
    (Decoded /\ decoded.parsed.ok) =>
        LET r == decoded.parsed.value
        IN  Cardinality({c \in {"success", "error", "notification"} :
                            \/ c = "success" /\ is_success(r)
                            \/ c = "error" /\ is_error(r)
                            \/ c = "notification" /\ is_notification(r)}) = 1

(* C5 case: an accepted notification counts as a success as well *)
C5_NotificationIsSuccess ==
    /\ Decoded /\ decoded.doc = NotificationDoc
    /\ decoded.parsed.ok
    /\ is_notification(decoded.parsed.value) /\ is_success(decoded.parsed.value)

(* the envelope invariant on the keys of an object *)
EnvelopeInvariant(data) ==
    LET response == /\ DictHas(data, "id")
                    /\ DictHas(data, "result") # DictHas(data, "error")
        notification == /\ DictHas(data, "method") /\ ~DictHas(data, "id")
                        /\ ~DictHas(data, "result") /\ ~DictHas(data, "error")
    IN  DictGet(data, "jsonrpc") = PyStr("2.0") /\ (response # notification)

(* C6: the decoder accepts an object exactly when its version is "2.0" and exactly one of
   (a) id present with exactly one of result / error present, (b) method present with id,
   result and error absent, holds; every other object is rejected *)
C6_AcceptedIffEnvelopeInvariant ==
    (Decoded /\ decoded.doc.t = "dict") =>
        (decoded.parsed.ok <=> EnvelopeInvariant(decoded.doc.v))

(* C6 case: an object holding both result and error, the error being null, was accepted *)
C6_ResultBesideNullErrorAccepted ==
    /\ Decoded
    /\ decoded.doc = PyDict(<<V2, <<"id", PyInt(1)>>, <<"result", PyInt(42)>>,
                              <<"error", None>> >>)
    /\ decoded.parsed.ok


-----------------------------------------------------------------------------
(* properties of the batch decoder (Spec, after Parse) *)

(* an element that satisfies the envelope invariant *)
ValidEnvelope(item) == item.t = "dict" /\ EnvelopeInvariant(item.v)

(* the envelope that stands for an element: its fields as they are in the document *)
IsEnvelopeOf(response, item) ==
    /\ response.jsonrpc = DictGet(item.v, "jsonrpc")
    /\ response.id = DictGet(item.v, "id")
    /\ response.result = DictGet(item.v, "result")
    /\ response.error = DictGet(item.v, "error")
    /\ response.method = DictGet(item.v, "method")
    /\ response.params = DictGet(item.v, "params")

FirstInvalidEnvelope(items) ==
    CHOOSE i \in 1..Len(items) :
        ~ValidEnvelope(items[i]) /\ \A j \in 1..(i - 1) : ValidEnvelope(items[j])

(* C11: for an array payload the decoder returns one envelope per element, in order, when
   every element is valid; otherwise it aborts the batch with an invalid-params error that
   names the index of the first invalid element and returns no envelope; an empty array
   is rejected before any extraction *)
C11_BatchDecodedOrAborted ==
    LET doc == args.jsonrpc_response
    IN  (pc # "start" /\ doc.t = "list") =>
            IF doc.v # <<>> /\ \A i \in 1..Len(doc.v) : ValidEnvelope(doc.v[i])
            THEN /\ Len(responses) = Len(doc.v)
                 /\ \A i \in 1..Len(doc.v) : IsEnvelopeOf(responses[i], doc.v[i])
            ELSE /\ responses = <<>> /\ all_records = <<>>
                 /\ Ended /\ outcome.status = "raised" /\ outcome.code = "INVALID_PARAMS"
                 /\ outcome.message =
                       IF doc.v = <<>> THEN "JSON-RPC batch cannot be empty"
                       ELSE "Invalid item at index "
                            \o ToString(FirstInvalidEnvelope(doc.v) - 1)

(* C11 case: a batch of two valid elements, the second with an explicit null result, was
   aborted naming index 1 *)
C11_NullResultItemAbortsBatch ==
    /\ Ended
    /\ args.jsonrpc_response = PyList(<<SuccessDoc, NullResultDoc>>)
    /\ responses = <<>>
    /\ outcome = Raise("INVALID_PARAMS", "Invalid item at index 1")


-----------------------------------------------------------------------------
(* server.py: several process_jsonrpc_to_db coroutines on one event loop.  Every variable
   of the coroutine is a function of the request; the engine side is shared: `handle` is
   the list of the engine handles opened so far (by whom, in which state, used by whom),
   `store` the target table.  A coroutine runs alone from one await to the next, so an
   action is the completion of one await and the code up to the next one. *)

MaxRequests == 2
Requests == 1..MaxRequests

(* the requests the coroutines are started with *)
RequestOf(doc, cs) ==
    [jsonrpc_response |-> doc, database_type |-> "sqlite", connection_string |-> cs,
     create_if_missing |-> TRUE, batch_size |-> 2, flatten_nested |-> TRUE,
     add_timestamps |-> TRUE, uuid_fields |-> <<>>]
ConcurrentArgs ==
    {RequestOf(ListDoc, "mongodb://h/db"), RequestOf(EmptyListDoc, "sqlite:///demo.db"),
     RequestOf(SuccessDoc, "http://h/db")}

(* the adapter object of a request: the attributes of __init__ and the engine handle the
   guarded attribute refers to (0 for None) *)
NewAdapter(conn) ==
    [database_type |-> conn.database_type, connection |-> conn.connection,
     client |-> conn.client, handle |-> 0]

(* the local variable db_connection of coroutine r *)
ConnectionOf(r) == db_connection[r]

InitConcurrent ==
    /\ pc = [r \in Requests |-> "start"]
    /\ args \in [Requests -> ConcurrentArgs]
    /\ result = [r \in Requests |->
                    [processed_responses |-> 0, inserted_records |-> 0,
                     table_name |-> TableName, database_type |-> args[r].database_type,
                     errors |-> <<>>]]
    /\ responses = [r \in Requests |-> <<>>]
    /\ all_records = [r \in Requests |-> <<>>]
    /\ transformed_records = [r \in Requests |-> <<>>]
    /\ db_connection = [r \in Requests |-> NoConnection]
    /\ handle = <<>>
    /\ store = NoStore
    /\ progress = [r \in Requests |-> NoProgress]
    /\ outcome = [r \in Requests |-> NoOutcome]
    /\ calls = [r \in Requests |-> <<>>]
    /\ decoded = NoDecoded
    /\ server = NoServer

(* the engine sees an operation of request r on the handle its adapter refers to *)
Issue(r, op) ==
    LET h == ConnectionOf(r).handle
    IN  /\ calls' = [calls EXCEPT ![r] = Append(@, [op |-> op, handle |-> h])]
        /\ handle' = [i \in 1..Len(handle) |->
                         IF i = h THEN [handle[i] EXCEPT !.users = @ \cup {r}] ELSE handle[i]]

(* Steps 1 and 2 and create_connection: the code before the first await *)
RequestStart(r) ==
    /\ pc[r] = "start"
    /\ LET parsed == validate_jsonrpc_batch(args[r].jsonrpc_response)
           extracted == Concat([i \in 1..Len(parsed.value) |->
                                   extract_data_from_jsonrpc(parsed.value[i])])
           made == create_connection(args[r].connection_string)
       IN  IF ~parsed.ok
           THEN /\ outcome' = [outcome EXCEPT ![r] = Raise("INVALID_PARAMS", parsed.message)]
                /\ pc' = [pc EXCEPT ![r] = "done"]
                /\ UNCHANGED <<responses, result, all_records, db_connection>>
           ELSE /\ responses' = [responses EXCEPT ![r] = parsed.value]
                /\ all_records' = [all_records EXCEPT ![r] = extracted]
                /\ IF extracted = <<>>
                   THEN /\ result' = [result EXCEPT
                                         ![r].processed_responses = Len(parsed.value),
                                         ![r].errors = Append(@, "No data records extracted")]
                        /\ outcome' = [outcome EXCEPT ![r] = Return]
                        /\ pc' = [pc EXCEPT ![r] = "done"]
                        /\ UNCHANGED db_connection
                   ELSE /\ result' = [result EXCEPT
                                         ![r].processed_responses = Len(parsed.value)]
                        /\ IF made.ok
                           THEN /\ db_connection' =
                                      [db_connection EXCEPT ![r] = NewAdapter(made.value)]
                                /\ pc' = [pc EXCEPT ![r] = "connect"]
                                /\ UNCHANGED outcome
                           ELSE /\ outcome' = [outcome EXCEPT
                                                  ![r] = Raise("INTERNAL_ERROR", made.message)]
                                /\ pc' = [pc EXCEPT ![r] = "done"]
                                /\ UNCHANGED db_connection
    /\ UNCHANGED <<args, transformed_records, handle, store, progress, calls, decoded, server>>

(* a connect that takes an open handle of the engine when there is one, instead of
   opening its own *)
RequestConnectPooled(r) ==
    /\ pc[r] = "connect"
    /\ LET open == {i \in 1..Len(handle) : handle[i].state = "open"}
           h == IF open # {} THEN CHOOSE i \in open : TRUE ELSE Len(handle) + 1
       IN  /\ handle' = IF open # {}
                        THEN [handle EXCEPT ![h].users = @ \cup {r}]
                        ELSE Append(handle, [owner |-> r, state |-> "open", users |-> {r}])
           /\ db_connection' =
                 [db_connection EXCEPT ![r] = [AfterConnect(@, "ok") EXCEPT !.handle = h]]
           /\ calls' = [calls EXCEPT ![r] = Append(@, [op |-> "connect", handle |-> h])]
    /\ transformed_records' =
          [transformed_records EXCEPT ![r] =
              transform_records(db_connection[r].database_type,
                                prepare_records_for_db(all_records[r], args[r].flatten_nested),
                                args[r].uuid_fields, args[r].add_timestamps, PyDatetime(0))]
    /\ pc' = [pc EXCEPT ![r] = "table_exists"]
    /\ UNCHANGED <<args, responses, all_records, store, progress, result, outcome, decoded, server>>

(* await db_connection.connect(): the engine opens a new handle for this adapter (or
   refuses); then prepare_records_for_db and transform_records, up to await table_exists *)
RequestConnect(r) ==
    /\ pc[r] = "connect"
    /\ \E how \in ConnectOutcomes(ConnectionOf(r).database_type) :
          LET h == Len(handle) + 1
          IN  /\ handle' = IF how = "failed" THEN handle
                           ELSE Append(handle, [owner |-> r, state |-> "open", users |-> {r}])
              /\ db_connection' =
                    [db_connection EXCEPT
                        ![r] = [AfterConnect(@, how) EXCEPT
                                   !.handle = IF how = "failed" THEN 0 ELSE h]]
              /\ calls' = [calls EXCEPT
                              ![r] = Append(@, [op |-> "connect",
                                                handle |-> IF how = "failed" THEN 0 ELSE h])]
              /\ IF how = "ok"
                 THEN /\ transformed_records' =
                            [transformed_records EXCEPT ![r] =
                                transform_records(
                                    ConnectionOf(r).database_type,
                                    prepare_records_for_db(all_records[r],
                                                           args[r].flatten_nested),
                                    args[r].uuid_fields, args[r].add_timestamps,
                                    PyDatetime(0))]
                      /\ pc' = [pc EXCEPT ![r] = "table_exists"]
                      /\ UNCHANGED outcome
                 ELSE /\ outcome' = [outcome EXCEPT
                                        ![r] = Raise("INTERNAL_ERROR", "Failed to connect")]
                      /\ pc' = [pc EXCEPT ![r] = "cleanup"]
                      /\ UNCHANGED transformed_records
    /\ UNCHANGED <<args, responses, all_records, store, progress, result, decoded, server>>

(* await db_connection.table_exists(table_name) and the branch on its answer *)
RequestTableExists(r) ==
    /\ pc[r] = "table_exists"
    /\ Issue(r, "exists")
    /\ \E query_failed \in BOOLEAN :
          LET table_exists == IF query_failed THEN FALSE ELSE store.present
          IN  IF ~table_exists /\ args[r].create_if_missing
              THEN pc' = [pc EXCEPT ![r] = "create_table"] /\ UNCHANGED outcome
              ELSE IF ~table_exists
              THEN /\ pc' = [pc EXCEPT ![r] = "cleanup"]
                   /\ outcome' = [outcome EXCEPT ![r] =
                         Raise("INVALID_PARAMS", "does not exist and create_if_missing is False")]
              ELSE pc' = [pc EXCEPT ![r] = "insert"] /\ UNCHANGED outcome
    /\ UNCHANGED <<args, responses, all_records, transformed_records, db_connection, store,
                   progress, result, decoded, server>>

(* infer_schema and await db_connection.create_table_or_collection(table_name, schema) *)
RequestCreateTable(r) ==
    /\ pc[r] = "create_table"
    /\ Issue(r, "create")
    /\ LET dbt == ConnectionOf(r).database_type
           schema == infer_schema(dbt, transformed_records[r])
       IN  \E ok \in BOOLEAN :
              IF ok
              THEN /\ store' = IF store.present THEN store
                               ELSE [store EXCEPT !.present = TRUE,
                                        !.schema = get_create_table_sql(dbt, schema)]
                   /\ pc' = [pc EXCEPT ![r] = "insert"]
                   /\ UNCHANGED outcome
              ELSE /\ pc' = [pc EXCEPT ![r] = "cleanup"]
                   /\ outcome' = [outcome EXCEPT
                                     ![r] = Raise("INTERNAL_ERROR", "Failed to create table")]
                   /\ UNCHANGED store
    /\ UNCHANGED <<args, responses, all_records, transformed_records, db_connection,
                   progress, result, decoded, server>>

(* one pass of insert_records' loop: the await of one chunk *)
RequestInsert(r) ==
    /\ pc[r] = "insert"
    /\ Issue(r, "insert")
    /\ LET dbt == ConnectionOf(r).database_type
           sent == InsertCall(dbt, transformed_records[r], progress[r].i, args[r].batch_size)
           next == NextIndex(dbt, progress[r].i, args[r].batch_size)
           count == progress[r].inserted_count + Len(sent)
       IN  \E ok \in BOOLEAN :
              IF ok
              THEN /\ store' = [store EXCEPT !.present = TRUE,
                                   !.rows = StoreRows(dbt, @, sent, progress[r].i)]
                   /\ progress' = [progress EXCEPT
                                      ![r] = [i |-> next, inserted_count |-> count]]
                   /\ IF next >= Len(transformed_records[r])
                      THEN /\ result' = [result EXCEPT ![r].inserted_records = count]
                           /\ outcome' = [outcome EXCEPT ![r] = Return]
                           /\ pc' = [pc EXCEPT ![r] = "cleanup"]
                      ELSE UNCHANGED <<result, outcome, pc>>
              ELSE /\ outcome' = [outcome EXCEPT
                                     ![r] = Raise("INTERNAL_ERROR", "Failed to insert batch")]
                   /\ pc' = [pc EXCEPT ![r] = "cleanup"]
                   /\ UNCHANGED <<store, progress, result>>
    /\ UNCHANGED <<args, responses, all_records, transformed_records, db_connection, decoded, server>>

(* finally: await db_connection.disconnect(), which closes the handle the adapter holds *)
RequestCleanup(r) ==
    /\ pc[r] = "cleanup"
    /\ calls' = [calls EXCEPT
                    ![r] = Append(@, [op |-> "disconnect", handle |-> ConnectionOf(r).handle])]
    /\ IF HoldsHandle(ConnectionOf(r))
       THEN \E closed \in BOOLEAN :
               LET h == ConnectionOf(r).handle
               IN  /\ handle' = [handle EXCEPT
                                    ![h].state = IF closed THEN "closed" ELSE "close_failed",
                                    ![h].users = @ \cup {r}]
                   /\ db_connection' =
                         [db_connection EXCEPT
                             ![r] = IF closed THEN [AfterDisconnect(@) EXCEPT !.handle = 0]
                                    ELSE @]
       ELSE UNCHANGED <<db_connection, handle>>
    /\ pc' = [pc EXCEPT ![r] = "done"]
    /\ UNCHANGED <<args, responses, all_records, transformed_records, store, progress,
                   result, outcome, decoded, server>>

NextConcurrent ==
    \E r \in Requests :
        \/ RequestStart(r)
        \/ RequestConnect(r)
        \/ RequestTableExists(r)
        \/ RequestCreateTable(r)
        \/ RequestInsert(r)
        \/ RequestCleanup(r)

SpecConcurrent == InitConcurrent /\ [][NextConcurrent]_vars

(* C12: with the requests interleaving at their awaits, every backend operation of a
   request is issued on the handle that this request's own connect opened, no handle is
   used by two requests, and a request that has returned or raised has left no handle of
   its own open *)
C12_ConnectionsNotShared ==
    /\ \A r \in Requests : \A i \in 1..Len(calls[r]) :
          calls[r][i].handle # 0 => handle[calls[r][i].handle].owner = r
    /\ \A h \in 1..Len(handle) : handle[h].users \subseteq {handle[h].owner}
    /\ \A r \in Requests : \A i \in 1..Len(calls[r]) :
          calls[r][i].op \in {"exists", "create", "insert"} => calls[r][i].handle # 0
    /\ \A r \in Requests :
          pc[r] = "done" =>
             \A h \in 1..Len(handle) : handle[h].owner = r => handle[h].state # "open"

(* C12 case: two requests hold an open handle each at the same time, and each has an
   insert behind it and more work ahead *)
C12_TwoRequestsInsertingAtOnce ==
    \E r, q \in Requests :
        /\ r # q
        /\ pc[r] = "insert" /\ pc[q] = "cleanup"
        /\ ConnectionOf(r).handle # 0 /\ ConnectionOf(q).handle # 0
        /\ ConnectionOf(r).handle # ConnectionOf(q).handle
        /\ handle[ConnectionOf(r).handle].state = "open"
        /\ handle[ConnectionOf(q).handle].state = "open"
        /\ \E i \in 1..Len(calls[r]) : calls[r][i].op = "insert"
        /\ \E i \in 1..Len(calls[q]) : calls[q][i].op = "insert"


-----------------------------------------------------------------------------
(* database_manager.py: one adapter object under any sequence of connect() and
   disconnect() calls.  pc is the last method called, `handle` the engine handles opened
   so far. *)

MaxHandles == 3

InitAdapter ==
    /\ pc = "init"
    /\ \E database_type \in DatabaseTypes :
          db_connection = NewAdapter(NewConnection(database_type))
    /\ handle = <<>>
    /\ args = NoArgs
    /\ responses = <<>>
    /\ all_records = <<>>
    /\ transformed_records = <<>>
    /\ store = NoStore
    /\ progress = NoProgress
    /\ result = NoResult
    /\ outcome = NoOutcome
    /\ calls = <<>>
    /\ decoded = NoDecoded
    /\ server = NoServer

(* connect(): the engine call opens a new handle and the guarded attribute is assigned it,
   whatever the attribute held before *)
AdapterConnect ==
    /\ Len(handle) < MaxHandles
    /\ \E how \in ConnectOutcomes(db_connection.database_type) :
          IF how = "failed"
          THEN UNCHANGED <<db_connection, handle>>
          ELSE /\ handle' = Append(handle, [owner |-> 1, state |-> "open", users |-> {1}])
               /\ db_connection' = [AfterConnect(db_connection, how) EXCEPT
                                       !.handle = Len(handle) + 1]
    /\ pc' = "connect"
    /\ UNCHANGED <<args, responses, all_records, transformed_records, store, progress,
                   result, outcome, calls, decoded, server>>

(* disconnect(): closes the handle the guarded attribute holds and clears it; a close()
   that raises leaves the attribute as it was *)
AdapterDisconnect ==
    /\ IF HoldsHandle(db_connection)
       THEN \E closed \in BOOLEAN :
               /\ handle' = [handle EXCEPT ![db_connection.handle].state =
                                IF closed THEN "closed" ELSE "close_failed"]
               /\ db_connection' = IF closed
                                   THEN [AfterDisconnect(db_connection) EXCEPT !.handle = 0]
                                   ELSE db_connection
       ELSE UNCHANGED <<db_connection, handle>>
    /\ pc' = "disconnect"
    /\ UNCHANGED <<args, responses, all_records, transformed_records, store, progress,
                   result, outcome, calls, decoded, server>>

NextAdapter ==
    \/ AdapterConnect
    \/ AdapterDisconnect

SpecAdapter == InitAdapter /\ [][NextAdapter]_vars

OpenHandles == {h \in 1..Len(handle) : handle[h].state = "open"}

(* C13: connect and disconnect are idempotent: a disconnect on an adapter that holds no
   handle closes nothing and leaves it without one, and after any connect, also one on an
   adapter that is connected already, every open engine handle is the one the adapter
   refers to (so at most one is open) *)
C13_ConnectDisconnectIdempotent ==
    /\ [][(pc' = "disconnect" /\ ~HoldsHandle(db_connection))
             => (handle' = handle /\ ~HoldsHandle(db_connection'))]_vars
    /\ [](\A h \in OpenHandles : HoldsHandle(db_connection) /\ db_connection.handle = h)

(* C13 case: after a second connect the adapter refers to the new handle while the
   handle of the first connect is still open *)
C13_EarlierHandleLeftOpen ==
    /\ pc = "connect"
    /\ Len(handle) = 2
    /\ OpenHandles = {1, 2}
    /\ db_connection.handle = 2


-----------------------------------------------------------------------------
(* data_transformer.py: infer_schema on a batch.  The records hold a field "k" and, each
   on its own, a field "n" with an int, a float, a null, a string or a bool, or no "n". *)

MaxRecords == 3

SchemaBatches ==
    LET values == {PyInt(1), PyFloat(2), None, PyStr("x"), PyBool(TRUE)}
        records == {<< <<"k", PyStr("a")>> >>}
                   \cup {<< <<"k", PyStr("a")>>, <<"n", x>> >> : x \in values}
    IN  UNION {[1..n -> records] : n \in 1..MaxRecords}

InitSchema ==
    /\ pc = "infer_schema"
    /\ \E database_type \in DatabaseTypes : db_connection = NewConnection(database_type)
    /\ transformed_records \in SchemaBatches
    /\ store = NoStore
    /\ args = NoArgs
    /\ responses = <<>>
    /\ all_records = <<>>
    /\ handle = "none"
    /\ progress = NoProgress
    /\ result = NoResult
    /\ outcome = NoOutcome
    /\ calls = <<>>
    /\ decoded = NoDecoded
    /\ server = NoServer

(* schema = transformer.infer_schema(transformed_records) *)
InferSchema ==
    /\ pc = "infer_schema"
    /\ store' = [store EXCEPT
                    !.schema = infer_schema(db_connection.database_type, transformed_records)]
    /\ pc' = "inferred"
    /\ UNCHANGED <<args, responses, all_records, transformed_records, db_connection, handle,
                   progress, result, outcome, calls, decoded, server>>

SpecSchema == InitSchema /\ [][InferSchema]_vars

(* the values a field holds in the batch, in record order *)
ValuesOf(records, field) ==
    LET holders == SelectSeq(records, LAMBDA rec : DictHas(rec, field))
    IN  [i \in 1..Len(holders) |-> DictGet(holders[i], field)]
TypesOf(records, field) ==
    {ValuesOf(records, field)[i].t : i \in 1..Len(ValuesOf(records, field))}
FloatType(database_type) == type_mappings(database_type).float
IntType(database_type) == type_mappings(database_type).int

(* C14: on every backend, a field that holds an int in one record and a float in another
   gets the backend's float type, whichever comes first *)
C14_IntFloatGivesFloat ==
    (pc = "inferred" /\ TypesOf(transformed_records, "n") = {"int", "float"}) =>
        DictGet(store.schema, "n") = FloatType(db_connection.database_type)

(* C14 case: on MySQL an int followed by a float was typed TEXT *)
C14_MySqlIntFloatIsText ==
    /\ pc = "inferred"
    /\ db_connection.database_type = "mysql"
    /\ ValuesOf(transformed_records, "n") = <<PyInt(1), PyFloat(2)>>
    /\ DictGet(store.schema, "n") = "TEXT"

(* the batch without its null-valued fields *)
WithoutNulls(records) ==
    [i \in 1..Len(records) |-> SelectSeq(records[i], LAMBDA item : ~IsNone(item[2]))]

(* C20: nulls never influence a field's type: the type of a field with a non-null value
   is the one its non-null values alone give, so a field that holds nulls and otherwise
   only ints is typed as int wherever the nulls are *)
C20_NullsDoNotInfluenceType ==
    LET database_type == db_connection.database_type
        types == TypesOf(transformed_records, "n")
    IN  (pc = "inferred" /\ types \ {"NoneType"} # {}) =>
            /\ DictGet(store.schema, "n")
                  = DictGet(infer_schema(database_type, WithoutNulls(transformed_records)), "n")
            /\ types = {"NoneType", "int"} =>
                  DictGet(store.schema, "n") = IntType(database_type)

(* C20 case: on SQLite a null followed by an int was typed TEXT *)
C20_NullThenIntIsText ==
    /\ pc = "inferred"
    /\ db_connection.database_type = "sqlite"
    /\ ValuesOf(transformed_records, "n") = <<None, PyInt(1)>>
    /\ DictGet(store.schema, "n") = "TEXT"


-----------------------------------------------------------------------------
(* server.py: serve().call_tool for insert_jsonrpc_to_db, followed by the pipeline.  The
   request's batch_size is Field(ge=1, le=10000) and max_batch_size is the server's
   setting (default 1000); the model draws them from 1..MaxBatchSize and
   1..MaxServerBatch. *)

MaxServerBatch == 2

InitCallTool ==
    /\ pc = "call_tool"
    /\ \E batch_size \in BatchSizes, max_batch_size \in 1..MaxServerBatch :
          /\ args = [jsonrpc_response |-> ListDoc, database_type |-> "sqlite",
                     batch_size |-> batch_size]
          /\ server = [max_batch_size |-> max_batch_size,
                       arguments |-> [batch_size |-> batch_size], warnings |-> <<>>]
    /\ result = [processed_responses |-> 0, inserted_records |-> 0,
                 table_name |-> TableName, database_type |-> "sqlite", errors |-> <<>>]
    /\ responses = <<>>
    /\ all_records = <<>>
    /\ transformed_records = <<>>
    /\ db_connection = NoConnection
    /\ handle = "none"
    /\ store \in InitialStores
    /\ progress = NoProgress
    /\ outcome = NoOutcome
    /\ calls = <<>>
    /\ decoded = NoDecoded

(* a call_tool that hands the request on as it came *)
CallToolWithoutCap ==
    /\ pc = "call_tool"
    /\ pc' = "start"
    /\ UNCHANGED <<args, responses, all_records, transformed_records, db_connection, handle,
                   store, progress, result, outcome, calls, decoded, server>>

(* lines 406-415: cap the batch size, log the warning, await process_jsonrpc_to_db(args) *)
CallTool ==
    /\ pc = "call_tool"
    /\ IF args.batch_size > server.max_batch_size
       THEN /\ args' = [args EXCEPT !.batch_size = server.max_batch_size]
            /\ server' = [server EXCEPT !.warnings = Append(@, "Batch size capped")]
       ELSE UNCHANGED <<args, server>>
    /\ pc' = "start"
    /\ UNCHANGED <<responses, all_records, transformed_records, db_connection, handle,
                   store, progress, result, outcome, calls, decoded>>

NextCallTool ==
    \/ CallTool
    \/ Next

SpecCallTool == InitCallTool /\ [][NextCallTool]_vars

Min(a, b) == IF a < b THEN a ELSE b

(* C15: the batch size handed to the insert is min(requested batch size, server maximum):
   the request the pipeline runs with carries it and the first chunk stored has that many
   records (or all of them when there are fewer; Redis stores record by record); a
   warning is logged exactly when the requested size exceeds the maximum *)
C15_BatchSizeCapped ==
    LET requested == server.arguments.batch_size
        capped == Min(requested, server.max_batch_size)
    IN  pc # "call_tool" =>
            /\ args.batch_size = capped
            /\ server.warnings = IF requested > server.max_batch_size
                                 THEN <<"Batch size capped">> ELSE <<>>
            /\ (Cardinality(CallsOf("insert")) = 1 /\ progress.i > 0
                  /\ db_connection.database_type # "redis") =>
                  /\ progress.i = capped
                  /\ Len(NewRows) = Min(capped, Len(transformed_records))

(* C15 case: a request for chunks of three on a server that allows two: the first chunk
   stored has two records and the warning was logged *)
C15_ThreeCappedAtTwo ==
    /\ server.arguments.batch_size = 3 /\ server.max_batch_size = 2
    /\ Len(transformed_records) = 3
    /\ Cardinality(CallsOf("insert")) = 1 /\ Len(NewRows) = 2
    /\ server.warnings = <<"Batch size capped">>


-----------------------------------------------------------------------------
(* properties of extraction from a list-valued result (SpecDecode) *)

ProvenanceKeys == {"jsonrpc_id", "jsonrpc_version", "result_index", "is_success"}

(* C16: for a success envelope whose result is a sequence of length N (N >= 0), extraction
   gives exactly N records in the order of the elements; the i-th record carries
   result_index = i (0-based); a mapping element contributes its own fields, any other
   element is wrapped as result_value / result_type *)
C16_SequenceResultGivesOneRecordPerElement ==
    (pc = "extracted" /\ is_success(decoded.parsed.value)
        /\ decoded.parsed.value.result.t = "list") =>
        LET items == decoded.parsed.value.result.v
            records == decoded.records
        IN  /\ Len(records) = Len(items)
            /\ \A i \in 1..Len(items) :
                  /\ DictGet(records[i], "result_index") = PyInt(i - 1)
                  /\ DictGet(records[i], "jsonrpc_id") = decoded.parsed.value.id
                  /\ IF items[i].t = "dict"
                     THEN \A j \in 1..Len(items[i].v) :
                             items[i].v[j][1] \notin ProvenanceKeys =>
                                DictGet(records[i], items[i].v[j][1]) = items[i].v[j][2]
                     ELSE /\ DictGet(records[i], "result_value") = items[i]
                          /\ DictGet(records[i], "result_type") = PyStr(TypeName(items[i]))

(* C16 case: a response with a null id, a method and a two-element result was extracted as
   one notification record; neither element of the result gave a record *)
C16_SequenceResultReadAsNotification ==
    /\ pc = "extracted"
    /\ decoded.doc = PyDict(<<V2, <<"id", None>>,
                              <<"result", PyList(<<AnnResult, PyInt(7)>>)>>,
                              <<"method", PyStr("notify")>> >>)
    /\ is_success(decoded.parsed.value)
    /\ Len(decoded.records) = 1
    /\ DictGet(decoded.records[1], "is_notification") = PyBool(TRUE)
    /\ ~DictHas(decoded.records[1], "result_index")

(* the sequence case of extraction for every response that is not read as a notification *)
C16_SequenceResultOfNonNotification ==
    (pc = "extracted" /\ is_success(decoded.parsed.value)
        /\ ~is_notification(decoded.parsed.value)
        /\ decoded.parsed.value.result.t = "list") =>
        LET items == decoded.parsed.value.result.v
            records == decoded.records
        IN  /\ Len(records) = Len(items)
            /\ \A i \in 1..Len(items) :
                  /\ DictGet(records[i], "result_index") = PyInt(i - 1)
                  /\ items[i].t # "dict" => DictGet(records[i], "result_value") = items[i]


-----------------------------------------------------------------------------
(* sanitize_field_name on its own: the function applied to a name, then to its own output *)

NameHeads == {"", "9", "A", "_", "-", " ", "user"}
NameMiddles == {"", "b-C", "x.y z", "__"}
(* tails of 0, 1, 56, 57, 59 and 70 characters *)
NameTails ==
    {"", "1",
     "Abcdefghij0123456789abcdefghij0123456789abcdefghij012345",
     "abcdefghij0123456789abcdefghij0123456789abcdefghij0123456",
     "abcdefghij-123456789ABCDEFGHIJ0123456789abcdefghij012345678",
     "abcdefghij0123456789abcdefghij0123456789abcdefghij0123456789abcdefghi$"}
SanitizeNames == {h \o m \o t : h \in NameHeads, m \in NameMiddles, t \in NameTails}

InitSanitize ==
    /\ pc = "sanitize"
    /\ \E name \in SanitizeNames : decoded = [name |-> name, sanitized |-> <<>>]
    /\ args = NoArgs
    /\ responses = <<>>
    /\ all_records = <<>>
    /\ transformed_records = <<>>
    /\ db_connection = NoConnection
    /\ handle = "none"
    /\ store = NoStore
    /\ progress = NoProgress
    /\ result = NoResult
    /\ outcome = NoOutcome
    /\ calls = <<>>
    /\ server = NoServer

(* one call of sanitize_field_name: on the name first, on the previous output afterwards *)
SanitizeName ==
    /\ pc = "sanitize"
    /\ LET input == IF decoded.sanitized = <<>> THEN decoded.name
                    ELSE decoded.sanitized[Len(decoded.sanitized)]
       IN  decoded' = [decoded EXCEPT !.sanitized = Append(@, sanitize_field_name(input))]
    /\ pc' = IF decoded.sanitized = <<>> THEN "sanitize" ELSE "sanitized"
    /\ UNCHANGED <<args, responses, all_records, transformed_records, db_connection, handle,
                   store, progress, result, outcome, calls, server>>

SpecSanitize == InitSanitize /\ [][SanitizeName]_vars

(* ^[a-z_][a-z0-9_]*$ *)
MatchesIdentifier(s) ==
    /\ s # ""
    /\ Char(s, 1) \in CharsOf(LowerAlphabet) \cup {"_"}
    /\ \A i \in 1..Len(s) : Char(s, i) \in CharsOf(LowerAlphabet) \cup DigitChars \cup {"_"}

(* C17: for every name (the empty name, names of more than 63 characters and names that
   start with a digit included) sanitize(sanitize(x)) = sanitize(x), and sanitize(x)
   matches ^[a-z_][a-z0-9_]*$ and has at most 63 characters *)
C17_SanitizeIdempotentAndWellFormed ==
    /\ \A i \in 1..Len(decoded.sanitized) :
          MatchesIdentifier(decoded.sanitized[i]) /\ Len(decoded.sanitized[i]) <= MaxNameLen
    /\ Len(decoded.sanitized) = 2 => decoded.sanitized[2] = decoded.sanitized[1]

(* C17 case: a name of more than 63 characters that starts with a digit was sanitized
   twice; the prefix was added and the result cut to 63 characters *)
C17_LongDigitNameSanitizedTwice ==
    /\ Len(decoded.name) > MaxNameLen
    /\ Char(decoded.name, 1) = "9"
    /\ Len(decoded.sanitized) = 2
    /\ Len(decoded.sanitized[1]) = MaxNameLen
    /\ StartsWith(decoded.sanitized[1], "field_9")

(* C17 case: the empty name was sanitized twice *)
C17_EmptyNameSanitized ==
    decoded.name = "" /\ decoded.sanitized = <<"field_", "field_">>


-----------------------------------------------------------------------------
(* flatten_nested_dict on its own: the function applied to a record, then to its own output *)

FlattenValues ==
    {None, PyInt(1), PyStr("x"),
     PyList(<<>>),
     PyList(<<PyInt(1), PyDict(<< <<"k", PyStr("v")>> >>)>>),
     PyDict(<<>>),
     PyDict(<< <<"name", PyStr("Bo")>>, <<"Tags-2", PyList(<<PyStr("admin"), PyInt(7)>>)>> >>),
     PyDict(<< <<"meta", PyDict(<< <<"deep", PyDict(<< <<"Leaf", PyInt(2)>>,
                                                         <<"items", PyList(<<PyInt(3)>>)>> >>)>>,
                                    <<"source", PyStr("api")>> >>)>> >>)}
FlattenRecords ==
    {<< <<"user", x>>, <<k, y>> >> : x \in FlattenValues, y \in FlattenValues,
                                       k \in {"user_name", "Tags-2"}}

InitFlatten ==
    /\ pc = "flatten"
    /\ \E record \in FlattenRecords : decoded = [record |-> record, flattened |-> <<>>]
    /\ args = NoArgs
    /\ responses = <<>>
    /\ all_records = <<>>
    /\ transformed_records = <<>>
    /\ db_connection = NoConnection
    /\ handle = "none"
    /\ store = NoStore
    /\ progress = NoProgress
    /\ result = NoResult
    /\ outcome = NoOutcome
    /\ calls = <<>>
    /\ server = NoServer

(* one call of flatten_nested_dict: on the record first, on the previous output afterwards *)
FlattenRecord ==
    /\ pc = "flatten"
    /\ LET input == IF decoded.flattened = <<>> THEN decoded.record
                    ELSE decoded.flattened[Len(decoded.flattened)]
       IN  decoded' = [decoded EXCEPT !.flattened = Append(@, flatten_nested_dict(input, ""))]
    /\ pc' = IF decoded.flattened = <<>> THEN "flatten" ELSE "flattened"
    /\ UNCHANGED <<args, responses, all_records, transformed_records, db_connection, handle,
                   store, progress, result, outcome, calls, server>>

SpecFlatten == InitFlatten /\ [][FlattenRecord]_vars

(* C18: for every record (mappings nested to any depth, sequences, scalars) flatten(r) has
   no mapping-valued and no sequence-valued field, and flatten(flatten(r)) = flatten(r) *)
C18_FlattenIsFlatAndIdempotent ==
    /\ \A i \in 1..Len(decoded.flattened) :
          \A j \in 1..Len(decoded.flattened[i]) :
             decoded.flattened[i][j][2].t \notin {"dict", "list"}
    /\ Len(decoded.flattened) = 2 => decoded.flattened[2] = decoded.flattened[1]

(* C18 case: a record with a mapping nested three deep that holds a sequence was flattened
   twice; the leaf and the serialized sequence are fields of the flat record *)
C18_DeepRecordFlattenedTwice ==
    /\ Len(decoded.flattened) = 2
    /\ DictGet(decoded.flattened[1], "user_meta_deep_leaf") = PyInt(2)
    /\ DictGet(decoded.flattened[1], "user_meta_deep_items") = PyStr("[3]")
    /\ DictGet(decoded.flattened[1], "tags_2") = PyStr("[1, {\"k\": \"v\"}]")


-----------------------------------------------------------------------------
(* properties of the order of the pipeline's steps (Spec) *)

(* prepare_records_for_db has run: Transform is the step that reads flatten_nested *)
Prepared == "flatten_nested" \in DOMAIN args

(* C19: the steps run in the order Parse, Extract, Prepare, Connect, Transform,
   EnsureSchema, Insert, Cleanup: the records are prepared (sanitized / flattened) before a
   backend connection is created or connect is called *)
C19_PreparedBeforeConnecting ==
    (db_connection # NoConnection \/ CallsOf("connect") # {}) => Prepared

(* C19 case: connect has returned and the handle is open, the records are extracted and
   preparation has not started *)
C19_ConnectedBeforePrepared ==
    /\ pc = "transform"
    /\ CallsOf("connect") # {} /\ handle = "open"
    /\ all_records # <<>>
    /\ ~Prepared /\ transformed_records = <<>>

(* the order of the code: the connection is created and connect has returned before the
   records are prepared, and every later adapter call follows the preparation *)
C19_PreparedAfterConnecting ==
    /\ Prepared => (db_connection # NoConnection /\ calls # <<>> /\ calls[1] = "connect")
    /\ ~Prepared => \A i \in 1..Len(calls) : calls[i] \in {"connect", "disconnect"}


-----------------------------------------------------------------------------
(* properties of the schema step (Spec) *)

CreateIfMissing == "create_if_missing" \in DOMAIN args /\ args.create_if_missing

(* C21: when the target table is reported absent and create_if_missing is true, create is
   invoked exactly once, with the schema inferred from this request's own transformed
   records, and strictly before the first insert; when the table is reported present,
   create is never invoked and the existing table is left as it is *)
C21_CreatedOnceBeforeInsert ==
    /\ Cardinality(CallsOf("create")) <= 1
    /\ (CallsOf("exists=False") # {} /\ CreateIfMissing /\ pc # "create_table") =>
          /\ Cardinality(CallsOf("create")) = 1
          /\ \A c \in CallsOf("create") :
                /\ \A i \in CallsOf("insert") : c < i
                /\ \E e \in CallsOf("exists=False") : e < c
    /\ store.schema # <<>> =>
          /\ CallsOf("create") # {}
          /\ store.schema =
                get_create_table_sql(db_connection.database_type,
                                     infer_schema(db_connection.database_type,
                                                  transformed_records))
    /\ CallsOf("exists=True") # {} =>
          /\ CallsOf("create") = {}
          /\ store.schema = <<>>
          /\ store.present
          /\ CallsOf("insert") = {} => store.rows = store.rows_before
    /\ (CallsOf("exists=False") # {} /\ ~CreateIfMissing) => CallsOf("create") = {}

(* C21 case: the absent table was created with the columns of the transformed records (the
   UUID field included), then filled by two insert calls *)
C21_CreatedThenFilled ==
    /\ pc = "done" /\ outcome = Return
    /\ store.rows_before = <<>>
    /\ Len(calls) >= 4
    /\ calls[2] = "exists=False" /\ calls[3] = "create" /\ calls[4] = "insert"
    /\ Cardinality(CallsOf("insert")) = 2
    /\ DictHas(store.schema, "record_id") /\ DictHas(store.schema, "name")
    /\ ~DictHas(all_records[1], "record_id")

(* C21 case: the present table was filled without a create call *)
C21_PresentTableNotCreated ==
    /\ pc = "done" /\ outcome = Return
    /\ CallsOf("exists=True") # {} /\ CallsOf("create") = {}
    /\ store.rows_before = <<OldRow>> /\ Len(store.rows) > 1


-----------------------------------------------------------------------------
(* properties of the insert calls (Spec) *)

SqlTypes == {"postgresql", "sqlite", "mysql"}

(* C22: for the relational and embedded engines each chunk is sent as one multi-row insert
   whose column list is exactly the key list of the chunk's first record, and a record of
   the chunk that lacks one of these columns is inserted with null in that position *)
C22_ChunkUsesColumnsOfFirstRecord ==
    (db_connection # NoConnection /\ db_connection.database_type \in SqlTypes
        /\ "batch_size" \in DOMAIN args) =>
        \A k \in 1..Len(NewRows) :
           LET columns == DictKeys(transformed_records[ChunkStart(k - 1) + 1])
           IN  /\ DictKeys(NewRows[k]) = columns
               /\ \A c \in 1..Len(columns) :
                     NewRows[k][c][2] =
                        IF DictHas(transformed_records[k], columns[c])
                        THEN DictGet(transformed_records[k], columns[c])
                        ELSE None

(* C22 case: a chunk whose first record has a name column held a record without a name;
   the row of that record was stored with null as its name *)
C22_MissingColumnStoredAsNull ==
    /\ db_connection # NoConnection /\ db_connection.database_type \in SqlTypes
    /\ outcome = Return
    /\ \E k \in 1..Len(NewRows) :
          /\ k # ChunkStart(k - 1) + 1
          /\ ~DictHas(transformed_records[k], "name")
          /\ DictHas(NewRows[k], "name") /\ DictGet(NewRows[k], "name") = None


-----------------------------------------------------------------------------
(* insert_records on its own: a connected adapter of each engine, n records, batch size b *)

MaxInsertRecords == 4

InsertRecordsOf(n) == [i \in 1..n |-> << <<"seq", PyInt(i)>>, <<"name", PyStr("r")>> >>]

InitInsert ==
    /\ pc = "insert"
    /\ \E dbt \in DatabaseTypes, b \in BatchSizes, n \in 0..MaxInsertRecords :
          /\ args = [jsonrpc_response |-> None, database_type |-> dbt, batch_size |-> b]
          /\ db_connection = AfterConnect(NewConnection(dbt), "ok")
          /\ transformed_records = InsertRecordsOf(n)
          /\ result = [processed_responses |-> 1, inserted_records |-> 0,
                       table_name |-> TableName, database_type |-> dbt, errors |-> <<>>]
    /\ responses = <<>>
    /\ all_records = <<>>
    /\ handle = "open"
    /\ store \in InitialStores
    /\ progress = NoProgress
    /\ outcome = NoOutcome
    /\ calls = <<"connect">>
    /\ decoded = NoDecoded
    /\ server = NoServer

(* insert_records: `if not records: return 0`, else one pass of the loop *)
InsertRecords ==
    IF transformed_records = <<>>
    THEN /\ pc = "insert"
         /\ result' = [result EXCEPT !.inserted_records = 0]
         /\ outcome' = Return
         /\ pc' = "cleanup"
         /\ UNCHANGED <<args, responses, all_records, transformed_records, db_connection,
                        handle, store, progress, calls, decoded, server>>
    ELSE InsertStep

SpecInsert == InitInsert /\ [][InsertRecords]_vars

CeilDiv(n, b) == (n + b - 1) \div b

(* C23: for n records and batch size b >= 1, insert_records of the relational, embedded and
   document engines issues exactly ceil(n/b) insert calls, the j-th holding records
   j*b .. min((j+1)*b, n) - 1 in their order (every record in exactly one chunk, every
   chunk but the last of size b), and returns n when all calls succeed; for n = 0 it
   issues no call and returns 0 *)
C23_ChunkedInCeilCalls ==
    db_connection.database_type # "redis" =>
        LET n == Len(transformed_records)
            b == args.batch_size
            j == Cardinality(CallsOf("insert"))
        IN  /\ j <= CeilDiv(n, b)
            /\ ~InsertFailed =>
                  /\ progress.i = j * b
                  /\ progress.inserted_count = Min(j * b, n)
                  /\ Len(NewRows) = Min(j * b, n)
                  /\ \A k \in 1..Len(NewRows) : NewRows[k] = transformed_records[k]
            /\ outcome = Return => (j = CeilDiv(n, b) /\ result.inserted_records = n)
            /\ pc = "cleanup" => (outcome = Return \/ InsertFailed)

(* C23 case: four records with batch size 3 went out in two calls, and 4 was returned *)
C23_FourRecordsInTwoCalls ==
    /\ db_connection.database_type = "mongodb"
    /\ Len(transformed_records) = 4 /\ args.batch_size = 3
    /\ outcome = Return /\ Cardinality(CallsOf("insert")) = 2
    /\ result.inserted_records = 4 /\ NewRows = transformed_records

(* C23 case: no record, no call, 0 returned *)
C23_NoRecordNoCall ==
    /\ db_connection.database_type = "postgresql"
    /\ transformed_records = <<>> /\ outcome = Return
    /\ CallsOf("insert") = {} /\ result.inserted_records = 0


-----------------------------------------------------------------------------
(* properties of the values handed to Redis (Spec) *)

(* the HSET mapping of the record that the next pass of the Redis loop sends *)
NextRedisMapping == InsertCall("redis", transformed_records, progress.i, 1)[1]

RedisCallPending ==
    /\ pc = "insert"
    /\ db_connection.database_type = "redis"
    /\ progress.i < Len(transformed_records)

(* C24: for the key-value backend transform_value returns a string for every input value
   that is not written to a hash target, so every field value that the pipeline hands to
   the key-value store for a record is a string *)
C24_RedisValuesAreStrings ==
    RedisCallPending =>
        \A k \in 1..Len(NextRedisMapping) : NextRedisMapping[k][2].t = "str"

(* C24 case: the record of an error response without data is about to be written to Redis
   with None as the value of error_data *)
C24_NullHandedToRedis ==
    /\ RedisCallPending
    /\ args.jsonrpc_response = ErrorDoc
    /\ DictHas(NextRedisMapping, "error_data")
    /\ DictGet(NextRedisMapping, "error_data") = None
    /\ transform_value("redis", None) = None

(* every value other than null is handed to Redis as a string: numbers and text stringified,
   booleans as "true" / "false", mappings and sequences as JSON text *)
C24_NonNullValuesAreStrings ==
    RedisCallPending =>
        LET record == transformed_records[progress.i + 1]
        IN  \A k \in 1..Len(record) :
               ~IsNone(record[k][2]) => NextRedisMapping[k][2].t = "str"


-----------------------------------------------------------------------------
(* add_uuid_fields and add_timestamps on their own: decoded.record is the dict object that
   the caller passes in, decoded.original its content at the time of the call *)

CreatedChoices == {<<>>, << <<"created_at", None>> >>, << <<"created_at", PyStr("2020-01-01")>> >>}
UpdatedChoices == {<<>>, << <<"updated_at", PyStr("2020-01-02")>> >>}
RecordIdChoices == {<<>>, << <<"record_id", None>> >>, << <<"record_id", PyStr("keep")>> >>,
                    << <<"record_id", PyInt(0)>> >>}
EnrichRecords ==
    {<< <<"name", PyStr("Ann")>> >> \o c \o i \o u :
        c \in CreatedChoices, i \in RecordIdChoices, u \in UpdatedChoices}
EnrichUuidFields == {<<"record_id">>, <<"record_id", "trace_id">>, <<"name", "trace_id", "span_id">>}

InitEnrich ==
    /\ pc = "enrich"
    /\ \E record \in EnrichRecords, uuid_fields \in EnrichUuidFields :
          /\ decoded = [original |-> record, record |-> record, with_uuids |-> <<>>,
                        stamped |-> <<>>]
          /\ args = [jsonrpc_response |-> None, database_type |-> "", uuid_fields |-> uuid_fields]
    /\ responses = <<>>
    /\ all_records = <<>>
    /\ transformed_records = <<>>
    /\ db_connection = NoConnection
    /\ handle = "none"
    /\ store = NoStore
    /\ progress = NoProgress
    /\ result = NoResult
    /\ outcome = NoOutcome
    /\ calls = <<>>
    /\ server = NoServer

(* an add_uuid_fields that assigns into the record it was given instead of a copy *)
AddUuidFieldsInPlace ==
    /\ pc = "enrich"
    /\ decoded.with_uuids = <<>>
    /\ decoded' = [decoded EXCEPT
                      !.with_uuids = add_uuid_fields(decoded.record, args.uuid_fields, 0),
                      !.record = add_uuid_fields(decoded.record, args.uuid_fields, 0)]
    /\ UNCHANGED <<pc, args, responses, all_records, transformed_records, db_connection,
                   handle, store, progress, result, outcome, calls, server>>

(* add_uuid_fields(record, uuid_fields): works on record.copy(), returns the copy *)
AddUuidFields ==
    /\ pc = "enrich"
    /\ decoded.with_uuids = <<>>
    /\ decoded' = [decoded EXCEPT
                      !.with_uuids = add_uuid_fields(decoded.record, args.uuid_fields, 0)]
    /\ UNCHANGED <<pc, args, responses, all_records, transformed_records, db_connection,
                   handle, store, progress, result, outcome, calls, server>>

(* add_timestamps(record): works on record.copy(), returns the copy *)
AddTimestamps ==
    /\ pc = "enrich"
    /\ decoded.stamped = <<>>
    /\ \E now \in Times :
          decoded' = [decoded EXCEPT !.stamped = add_timestamps(decoded.record, PyDatetime(now))]
    /\ UNCHANGED <<pc, args, responses, all_records, transformed_records, db_connection,
                   handle, store, progress, result, outcome, calls, server>>

SpecEnrich == InitEnrich /\ [][AddUuidFields \/ AddTimestamps]_vars

SeqToSet(s) == {s[i] : i \in 1..Len(s)}

(* C25: add_timestamps sets created_at only when that key is absent, always overwrites
   updated_at and leaves every other field unchanged; add_uuid_fields assigns a new UUID
   only to named fields that are absent or null and leaves named fields with a non-null
   value and all unnamed fields unchanged; neither modifies the record passed in *)
C25_EnrichmentFrame ==
    LET record == decoded.original
        named == SeqToSet(args.uuid_fields)
        fresh == {k \in named : ~DictHas(record, k) \/ IsNone(DictGet(record, k))}
    IN  /\ decoded.record = decoded.original
        /\ decoded.stamped # <<>> =>
              /\ KeySet(decoded.stamped) = KeySet(record) \cup {"created_at", "updated_at"}
              /\ DictGet(decoded.stamped, "updated_at").t = "datetime"
              /\ DictGet(decoded.stamped, "created_at") =
                    IF DictHas(record, "created_at") THEN DictGet(record, "created_at")
                    ELSE DictGet(decoded.stamped, "updated_at")
              /\ \A k \in KeySet(record) \ {"created_at", "updated_at"} :
                    DictGet(decoded.stamped, k) = DictGet(record, k)
        /\ decoded.with_uuids # <<>> =>
              /\ KeySet(decoded.with_uuids) = KeySet(record) \cup named
              /\ \A k \in KeySet(record) \ fresh :
                    DictGet(decoded.with_uuids, k) = DictGet(record, k)
              /\ \A k \in fresh :
                    /\ is_uuid_string(DictGet(decoded.with_uuids, k).v)
                    /\ \A other \in fresh \ {k} :
                          DictGet(decoded.with_uuids, other) # DictGet(decoded.with_uuids, k)

(* C25 case: a record with a null record_id, an old created_at and an old updated_at went
   through both operations: the null id was replaced, created_at kept, updated_at reset *)
C25_NullIdReplacedCreatedKept ==
    /\ decoded.stamped # <<>> /\ decoded.with_uuids # <<>>
    /\ DictGet(decoded.original, "record_id") = None /\ DictHas(decoded.original, "record_id")
    /\ DictGet(decoded.with_uuids, "record_id").t = "str"
    /\ DictGet(decoded.with_uuids, "name") = PyStr("Ann")
    /\ DictGet(decoded.stamped, "created_at") = PyStr("2020-01-01")
    /\ DictGet(decoded.stamped, "updated_at") # PyStr("2020-01-02")
    /\ DictGet(decoded.record, "updated_at") = PyStr("2020-01-02")


-----------------------------------------------------------------------------
(* properties of a second insert into a Redis table (Spec; the table's earlier record is
   OldRow, stored under the key jsonrpc_data:0) *)

(* C26: a bulk insert into the key-value backend never overwrites or merges into a record
   stored by an earlier bulk insert into the same table: after two successful inserts of
   n1 and n2 records, n1 + n2 keyed records exist, each holding exactly the fields of one
   input record *)
C26_RedisInsertKeepsEarlierRecords ==
    (db_connection # NoConnection /\ db_connection.database_type = "redis"
        /\ outcome = Return) =>
        /\ Len(store.rows) = Len(store.rows_before) + result.inserted_records
        /\ SubSeq(store.rows, 1, Len(store.rows_before)) = store.rows_before

(* C26 case: one record was inserted into a Redis table that held one record; the table
   still holds one record, with the earlier record's name beside the new record's fields *)
C26_SecondInsertMergedIntoFirst ==
    /\ db_connection.database_type = "redis" /\ outcome = Return
    /\ args.jsonrpc_response = ScalarDoc
    /\ store.rows_before = <<OldRow>> /\ result.inserted_records = 1
    /\ Len(store.rows) = 1
    /\ DictGet(store.rows[1], "name") = PyStr("old")
    /\ DictGet(store.rows[1], "result_value") = PyStr("42")
    /\ DictGet(store.rows[1], "jsonrpc_id") = PyStr("1")


-----------------------------------------------------------------------------
(* properties of the keys of a prepared record (SpecFlatten) *)

(* the scalar and sequence leaves of a record, over all nested mappings *)
RECURSIVE LeafCount(_)
LeafCount(data) ==
    IF data = <<>> THEN 0
    ELSE (IF data[1][2].t = "dict" THEN LeafCount(data[1][2].v) ELSE 1) + LeafCount(Tail(data))

(* C27: prepare never loses a field: distinct source keys (distinct nested paths when
   flattening) map to distinct output keys, so the prepared record has one entry per scalar
   or sequence leaf of the input and no value is overwritten by another *)
C27_PreparedRecordKeepsEveryLeaf ==
    decoded.flattened # <<>> => Len(decoded.flattened[1]) = LeafCount(decoded.record)

(* C27 case: the nested path user.name and the top-level key user_name were both given the
   key user_name; of the three leaves two are left, and "Bo" is gone *)
C27_NestedPathCollidesWithKey ==
    /\ decoded.flattened # <<>>
    /\ decoded.record =
          << <<"user", PyDict(<< <<"name", PyStr("Bo")>>,
                                 <<"Tags-2", PyList(<<PyStr("admin"), PyInt(7)>>)>> >>)>>,
             <<"user_name", PyStr("x")>> >>
    /\ LeafCount(decoded.record) = 3
    /\ DictKeys(decoded.flattened[1]) = <<"user_name", "user_tags_2">>
    /\ DictGet(decoded.flattened[1], "user_name") = PyStr("x")


-----------------------------------------------------------------------------
(* properties of the reported database type (Spec) *)

(* C28: the database type reported in the insert response names the backend engine that
   was connected to and written, for every combination of the request's database_type and
   connection_string *)
C28_ReportedTypeIsConnectedEngine ==
    (outcome = Return /\ Called("insert")) =>
        result.database_type = db_connection.database_type

(* C28 case: the request named mongodb, the connection string selected SQLite; the records
   were written to SQLite and the response reports mongodb *)
C28_ReportsMongoWroteSqlite ==
    /\ pc = "done" /\ outcome = Return
    /\ Called("insert")
    /\ args.database_type = "mongodb" /\ args.connection_string = "sqlite:///demo.db"
    /\ db_connection.database_type = "sqlite"
    /\ result.database_type = "mongodb"
    /\ result.inserted_records > 0 /\ Len(NewRows) = result.inserted_records


-----------------------------------------------------------------------------
(* properties of infer_schema under reordering of the batch (SpecSchema) *)

Permuted(records, p) == [i \in 1..Len(records) |-> records[p[i]]]

(* C29: for a fixed backend the type infer_schema gives to each field depends only on the
   values the field takes in the batch, not on the order of the records: every permutation
   of the same records yields the same field-to-type mapping *)
C29_SchemaIndependentOfRecordOrder ==
    pc = "inferred" =>
        \A p \in Permutations(1..Len(transformed_records)) :
           SeqToSet(infer_schema(db_connection.database_type,
                                 Permuted(transformed_records, p)))
              = SeqToSet(store.schema)

(* C29 case: on PostgreSQL an int, a string and a float in this order were typed TEXT, as
   the same values are in the order int, float, string *)
C29_IntStrFloatIsText ==
    /\ pc = "inferred"
    /\ db_connection.database_type = "postgresql"
    /\ ValuesOf(transformed_records, "n") = <<PyInt(1), PyStr("x"), PyFloat(2)>>
    /\ DictGet(store.schema, "n") = "TEXT"
    /\ DictGet(infer_schema("postgresql",
                            Permuted(transformed_records, <<1, 3, 2>>)), "n") = "TEXT"


-----------------------------------------------------------------------------
(* resource-manager/src/main.py: MCPResourceManager.  In this specification store is the
   container engine (the status of every container), server the manager object
   (container_activity), args the server_requests of the running pass, progress the loop
   index, the status read for the current container and the clock, calls the start / stop
   calls of the pass, result the number (mod 2) and the state of the last pass.  Two of the
   seven on-demand containers and one of the three always-running ones are modelled. *)

mcp_servers == <<"mcp-time-prod", "mcp-git-prod">>
always_running == <<"mcp-router-prod">>
Containers == SeqToSet(mcp_servers) \cup SeqToSet(always_running)

(* container.status *)
Statuses == {"running", "exited"}

(* AUTO_SHUTDOWN_TIMEOUT and the end of the clock, in ticks *)
auto_shutdown_timeout == 1
MaxTime == 2

(* a datetime: datetime.now() is naive, a lastActivity with an offset is aware *)
Naive(t) == [aware |-> FALSE, at |-> t]
Activities(now) == [aware : BOOLEAN, at : 0..now]

(* get_server_requests(): the last activity of the servers that the router reports one
   for, all of them written with an offset or all of them without *)
ServerRequests(now) ==
    UNION {[names -> {a \in Activities(now) : a.aware = aware}] :
              names \in SUBSET SeqToSet(mcp_servers), aware \in BOOLEAN}

Track(activity, container_name, when) ==
    [c \in DOMAIN activity \cup {container_name} |->
        IF c = container_name THEN when ELSE activity[c]]
Untrack(activity, container_name) ==
    [c \in DOMAIN activity \ {container_name} |-> activity[c]]

InitManager ==
    /\ pc = "idle"
    /\ store \in [Containers -> Statuses]
    /\ server = [container_activity |-> << >>]
    /\ args = << >>
    /\ progress = [i |-> 0, status |-> "exited", now |-> 0]
    /\ calls = <<>>
    /\ result = [pass |-> 0, state |-> "none"]
    /\ responses = <<>>
    /\ all_records = <<>>
    /\ transformed_records = <<>>
    /\ db_connection = NoConnection
    /\ handle = "none"
    /\ outcome = NoOutcome
    /\ decoded = NoDecoded

(* manage_containers up to the first loop: health check, get_server_requests *)
ManageContainers ==
    /\ pc = "idle"
    /\ \E healthy \in BOOLEAN :
          IF ~healthy
          THEN /\ result' = [pass |-> 1 - result.pass, state |-> "skipped"]
               /\ calls' = <<>>
               /\ UNCHANGED <<pc, args, progress>>
          ELSE /\ result' = [pass |-> 1 - result.pass, state |-> "started"]
               /\ calls' = <<>>
               /\ args' \in ServerRequests(progress.now)
               /\ progress' = [progress EXCEPT !.i = 1]
               /\ pc' = "servers"
    /\ UNCHANGED <<store, server, responses, all_records, transformed_records,
                   db_connection, handle, outcome, decoded>>

(* the loop over mcp_servers: the status is read and, for a running container that the
   router reports on, the tracked activity replaced *)
ManageServer ==
    /\ pc = "servers"
    /\ LET container_name == mcp_servers[progress.i]
           status == store[container_name]
       IN  IF status = "running"
           THEN /\ server' = IF container_name \in DOMAIN args
                             THEN [server EXCEPT !.container_activity =
                                      Track(@, container_name, args[container_name])]
                             ELSE server
                /\ progress' = [progress EXCEPT !.status = status]
                /\ pc' = "should_stop"
           ELSE /\ progress' = [progress EXCEPT !.i = IF @ < Len(mcp_servers) THEN @ + 1 ELSE 1]
                /\ pc' = IF progress.i < Len(mcp_servers) THEN "servers" ELSE "always"
                /\ UNCHANGED server
    /\ UNCHANGED <<args, store, calls, result, responses, all_records, transformed_records,
                   db_connection, handle, outcome, decoded>>

(* should_stop_container: tracked, and now - last_activity above the timeout; the
   subtraction of an aware datetime from datetime.now() raises TypeError *)
should_stop_container(activity, container_name, now) ==
    /\ container_name \in DOMAIN activity
    /\ now - activity[container_name].at > auto_shutdown_timeout

(* a should_stop_container that does not look at the time *)
StopIfInactiveWithoutTimeout ==
    /\ pc = "should_stop"
    /\ LET container_name == mcp_servers[progress.i]
           activity == server.container_activity
           advance == /\ progress' = [progress EXCEPT
                                         !.i = IF @ < Len(mcp_servers) THEN @ + 1 ELSE 1]
                      /\ pc' = IF progress.i < Len(mcp_servers) THEN "servers" ELSE "always"
       IN  IF container_name \in DOMAIN activity
           THEN /\ calls' = Append(calls, <<"stop", container_name>>)
                /\ \E stopped \in BOOLEAN :
                      IF stopped
                      THEN /\ store' = [store EXCEPT ![container_name] = "exited"]
                           /\ server' = [server EXCEPT !.container_activity =
                                            Untrack(@, container_name)]
                      ELSE UNCHANGED <<store, server>>
                /\ advance
                /\ UNCHANGED <<args, result>>
           ELSE advance /\ UNCHANGED <<args, calls, store, server, result>>
    /\ UNCHANGED <<responses, all_records, transformed_records, db_connection, handle,
                   outcome, decoded>>

(* if self.should_stop_container(container_name): self.stop_container(container_name) *)
StopIfInactive ==
    /\ pc = "should_stop"
    /\ LET container_name == mcp_servers[progress.i]
           activity == server.container_activity
           advance == /\ progress' = [progress EXCEPT
                                         !.i = IF @ < Len(mcp_servers) THEN @ + 1 ELSE 1]
                      /\ pc' = IF progress.i < Len(mcp_servers) THEN "servers" ELSE "always"
       IN  IF container_name \in DOMAIN activity /\ activity[container_name].aware
           THEN /\ result' = [result EXCEPT !.state = "raised"]
                /\ pc' = "idle"
                /\ progress' = [progress EXCEPT !.i = 0, !.status = "exited"]
                /\ args' = << >>
                /\ UNCHANGED <<calls, store, server>>
           ELSE IF should_stop_container(activity, container_name, progress.now)
           THEN /\ calls' = Append(calls, <<"stop", container_name>>)
                /\ \E stopped \in BOOLEAN :
                      IF stopped
                      THEN /\ store' = [store EXCEPT ![container_name] = "exited"]
                           /\ server' = [server EXCEPT !.container_activity =
                                            Untrack(@, container_name)]
                      ELSE UNCHANGED <<store, server>>
                /\ advance
                /\ UNCHANGED <<args, result>>
           ELSE advance /\ UNCHANGED <<args, calls, store, server, result>>
    /\ UNCHANGED <<responses, all_records, transformed_records, db_connection, handle,
                   outcome, decoded>>

(* the loop over always_running: a container that is not running is started *)
ManageAlwaysRunning ==
    /\ pc = "always"
    /\ LET container_name == always_running[progress.i]
       IN  IF store[container_name] # "running"
           THEN /\ calls' = Append(calls, <<"start", container_name>>)
                /\ \E started \in BOOLEAN :
                      IF started
                      THEN /\ store' = [store EXCEPT ![container_name] = "running"]
                           /\ server' = [server EXCEPT !.container_activity =
                                            Track(@, container_name, Naive(progress.now))]
                      ELSE UNCHANGED <<store, server>>
           ELSE UNCHANGED <<calls, store, server>>
    /\ IF progress.i < Len(always_running)
       THEN progress' = [progress EXCEPT !.i = @ + 1] /\ UNCHANGED <<pc, args, result>>
       ELSE /\ progress' = [progress EXCEPT !.i = 0, !.status = "exited"]
            /\ args' = << >>
            /\ pc' = "idle"
            /\ result' = [result EXCEPT !.state = "completed"]
    /\ UNCHANGED <<responses, all_records, transformed_records, db_connection, handle,
                   outcome, decoded>>

(* start_server_on_demand for a known server, between two passes *)
StartServerOnDemand ==
    /\ pc = "idle"
    /\ \E i \in 1..Len(mcp_servers) :
          LET container_name == mcp_servers[i]
          IN  IF store[container_name] = "running"
              THEN /\ server' = [server EXCEPT !.container_activity =
                                    Track(@, container_name, Naive(progress.now))]
                   /\ UNCHANGED store
              ELSE \E started \in BOOLEAN :
                      IF started
                      THEN /\ store' = [store EXCEPT ![container_name] = "running"]
                           /\ server' = [server EXCEPT !.container_activity =
                                            Track(@, container_name, Naive(progress.now))]
                      ELSE UNCHANGED <<store, server>>
    /\ UNCHANGED <<pc, args, progress, calls, result, responses, all_records,
                   transformed_records, db_connection, handle, outcome, decoded>>

(* between two passes: time.sleep, and containers that exit, are removed or are started
   by someone else *)
Tick ==
    /\ pc = "idle"
    /\ progress.now < MaxTime
    /\ progress' = [progress EXCEPT !.now = @ + 1]
    /\ UNCHANGED <<pc, args, store, server, calls, result, responses, all_records,
                   transformed_records, db_connection, handle, outcome, decoded>>

ContainerChanges ==
    /\ pc = "idle"
    /\ \E c \in Containers : \E status \in Statuses \ {store[c]} :
          store' = [store EXCEPT ![c] = status]
    /\ UNCHANGED <<pc, args, progress, server, calls, result, responses, all_records,
                   transformed_records, db_connection, handle, outcome, decoded>>

NextManager ==
    \/ ManageContainers
    \/ ManageServer
    \/ StopIfInactive
    \/ ManageAlwaysRunning
    \/ StartServerOnDemand
    \/ Tick
    \/ ContainerChanges

SpecManager == InitManager /\ [][NextManager]_vars

(* the step issues a stop call for container c *)
StopCalled(c) == Len(calls') = Len(calls) + 1 /\ calls'[Len(calls')] = <<"stop", c>>

(* C30: in every management pass a container is stopped only if it is in the on-demand
   list, its status is running and its tracked last activity is older than the
   auto-shutdown timeout; always-running containers are never stopped; when the router
   health check fails the pass neither starts nor stops any container *)
C30_StopsOnlyInactiveOnDemandContainers ==
    [][/\ \A c \in Containers :
             /\ StopCalled(c) =>
                   /\ c \in SeqToSet(mcp_servers) /\ c \notin SeqToSet(always_running)
                   /\ store[c] = "running"
                   /\ c \in DOMAIN server.container_activity
                   /\ progress.now - server.container_activity[c].at > auto_shutdown_timeout
             /\ (pc # "idle" /\ store[c] = "running" /\ store'[c] # "running") =>
                   (StopCalled(c) /\ c \notin SeqToSet(always_running))
       /\ (result'.pass # result.pass /\ result'.state = "skipped") =>
             (store' = store /\ calls' = <<>> /\ pc' = "idle" /\ server' = server)]_vars

(* C30 case: a pass stopped the running on-demand container mcp-git-prod, tracked and
   inactive for longer than the timeout, and left the other containers running *)
C30_InactiveContainerStopped ==
    /\ result.state = "completed"
    /\ calls = << <<"stop", "mcp-git-prod">> >>
    /\ store["mcp-git-prod"] = "exited"
    /\ store["mcp-time-prod"] = "running" /\ store["mcp-router-prod"] = "running"
    /\ "mcp-git-prod" \notin DOMAIN server.container_activity

(* C30 case: a pass whose health check failed left a stopped always-running container as
   it was *)
C30_UnhealthyPassSkipped ==
    /\ result.state = "skipped" /\ pc = "idle"
    /\ calls = <<>>
    /\ store["mcp-router-prod"] = "exited"

====
